---- MODULE Spec2Model ----
(***************************************************************************)
(* A model of the prompt template compiler of zmcp                          *)
(* (src/src/promptProcessor/index.ts and its utils).                        *)
(*                                                                          *)
(* Text is modelled as a sequence of one-character strings, so that the     *)
(* scanners, positions and substrings are computed character by character   *)
(* as the regular expressions of the source compute them.  Positions are    *)
(* 0-based half-open offsets, as in the source.                             *)
(***************************************************************************)
EXTENDS Integers, Sequences, FiniteSets, TLC

VARIABLES
  \* --- parseSegments (SpecSeg) ---
  content,          \* the document handed to parseSegments
  allSegments,      \* the concatenated output of the six scanners
  mergedSegments,   \* after mergeOverlappingSegments and sortByPosition
  completeSegments, \* after insertTextSegments
  segPc,            \* "input" before parseSegments ran, "parsed" after
  \* --- processPrompt (SpecCompile) ---
  files,            \* the paths of the files of the vault
  rootContent,      \* the text of the prompt file (this.file)
  cpc,              \* "idle", "readingRoot", "processing", "done"
  args,             \* the variable bindings passed to processPrompt
  segments,         \* the segments of the root document
  context,          \* the ProcessingContext of this compile
  status,           \* per segment: "done" or "pending" (awaiting its read)
  out,              \* per segment: the ProcessedContent items it resolved to
  pendingFile,      \* per segment: the file whose read it awaits, if any
  reads,            \* the reads issued to the vault, in order
  settled,          \* the segments whose read completed, in completion order
  result,           \* the Result returned by processPrompt
  \* --- toPromptMessages (SpecMsg) ---
  processed,        \* the ProcessedContent items handed to toPromptMessages
  messages,         \* the PromptMessages it returned
  msgPc,            \* "input" before toPromptMessages ran, "built" after
  \* --- updateTaskInContent (SpecLine) ---
  docContent,       \* the content handed to updateTaskInContent
  lineNumber,       \* the 1-based line number handed to it
  newTaskLine,      \* the line handed to it
  outcome,          \* how the call ended: a returned content or a thrown Error
  linePc,           \* "input" before updateTaskInContent ran, "called" after
  \* --- filterTasks (SpecFilter) ---
  tasks,            \* the tasks handed to filterTasks
  filter,           \* the TaskFilter handed to it
  filtered,         \* the tasks it returned
  filterPc,         \* "input" before filterTasks ran, "filtered" after
  \* --- parseTasksFromContent (SpecParseDoc) ---
  fileContent,      \* the content handed to parseTasksFromContent
  fileTasks,        \* the Result it returned
  docPc,            \* "input" before parseTasksFromContent ran, "parsed" after
  \* --- the file watchers of the server (SpecWatch) ---
  vaultFiles,       \* the markdown files of the vault, each with its tags
  promptResources,  \* the registry of the server: prompt name -> file path
  vaultPrompts,     \* the vault prompt list: prompt name -> file path
  pendingReloads,   \* the registries registerDynamicPrompts still awaits on
  \* --- getMatchContext (SpecContext) ---
  searchText,       \* the text handed to getMatchContext
  searchQuery,      \* the query handed to it
  contextLength,    \* the contextLength handed to it
  matchContext,     \* the {matched_text, context} it returned
  ctxPc,            \* "input" before getMatchContext ran, "called" after
  \* --- insertTaskIntoContent (SpecInsert) ---
  insertContent,    \* the content handed to insertTaskIntoContent
  insertLine,       \* the task line handed to it
  insertPosition,   \* the position handed to it, None if absent
  insertHeading,    \* the heading handed to it, None if absent
  inserted,         \* the Result it returned
  insertPc,         \* "input" before insertTaskIntoContent ran, "called" after
  \* --- create-task, update-task, complete-task on one file (SpecWrite) ---
  taskFile,         \* the content of the file the operations write
  writeOp,          \* writer -> the operation it runs
  writePc,          \* writer -> "start", "listing", "modify" or "done"
  readContent,      \* writer -> the content its readFileByTFile returned
  newContent,       \* writer -> the content it hands to modifyFileByTFile
  written,          \* writer -> the Result of its operation
  \* --- MCPPlugin: startServer, stopServer, restartServer (SpecPlugin) ---
  transport,        \* this.transport: None or the transport referenced
  server,           \* this.server: None or the server referenced
  transports,       \* transport -> "none", "created", "started", "stopped" or "failed"
  calls,            \* call -> where it is suspended and what follows
  serverEnabled,    \* settings.serverEnabled
  \* --- formatTask, parseTaskLine (SpecRoundTrip), applyUpdates (SpecApply) ---
  task,             \* the Task handed to formatTask or applyUpdates
  taskLine,         \* the line formatTask returned
  parsedTask,       \* the Result of parseTaskLine on that line
  rewrittenLine,    \* the line formatTask returned for the parsed task
  updates,          \* the TaskUpdate handed to applyUpdates
  updatedTask,      \* the Task applyUpdates returned
  taskPc            \* "input", "formatted", "parsed", "rewritten", "updated"

segVars == <<content, allSegments, mergedSegments, completeSegments, segPc>>

compileVars == <<files, rootContent, cpc, args, segments, context, status, out,
                 pendingFile, reads, settled, result>>

msgVars == <<processed, messages, msgPc>>

taskVars == <<task, taskLine, parsedTask, rewrittenLine, updates, updatedTask, taskPc>>

lineVars == <<docContent, lineNumber, newTaskLine, outcome, linePc>>

filterVars == <<tasks, filter, filtered, filterPc>>

docVars == <<fileContent, fileTasks, docPc>>

watchVars == <<vaultFiles, promptResources, vaultPrompts, pendingReloads>>

ctxVars == <<searchText, searchQuery, contextLength, matchContext, ctxPc>>

insertVars == <<insertContent, insertLine, insertPosition, insertHeading, inserted, insertPc>>

writeVars == <<taskFile, writeOp, writePc, readContent, newContent, written>>

pluginVars == <<transport, server, transports, calls, serverEnabled>>

vars == <<segVars, compileVars, msgVars, taskVars, lineVars, filterVars, docVars, watchVars, ctxVars, insertVars, writeVars, pluginVars>>

\* the state an operation of one group leaves alone
nonSegVars == <<compileVars, msgVars, taskVars, lineVars, filterVars, docVars, watchVars, ctxVars, insertVars, writeVars, pluginVars>>
nonCompileVars == <<segVars, msgVars, taskVars, lineVars, filterVars, docVars, watchVars, ctxVars, insertVars, writeVars, pluginVars>>
nonMsgVars == <<segVars, compileVars, taskVars, lineVars, filterVars, docVars, watchVars, ctxVars, insertVars, writeVars, pluginVars>>
nonTaskVars == <<segVars, compileVars, msgVars, lineVars, filterVars, docVars, watchVars, ctxVars, insertVars, writeVars, pluginVars>>
nonPluginVars == <<segVars, compileVars, msgVars, taskVars, lineVars, filterVars, docVars, watchVars, ctxVars, insertVars, writeVars>>
nonWriteVars == <<segVars, compileVars, msgVars, taskVars, lineVars, filterVars, docVars, watchVars, ctxVars, insertVars, pluginVars>>
nonInsertVars == <<segVars, compileVars, msgVars, taskVars, lineVars, filterVars, docVars, watchVars, ctxVars, writeVars, pluginVars>>
nonCtxVars == <<segVars, compileVars, msgVars, taskVars, lineVars, filterVars, docVars, watchVars, insertVars, writeVars, pluginVars>>
nonWatchVars == <<segVars, compileVars, msgVars, taskVars, lineVars, filterVars, docVars, ctxVars, insertVars, writeVars, pluginVars>>
nonDocVars == <<segVars, compileVars, msgVars, taskVars, lineVars, filterVars, watchVars, ctxVars, insertVars, writeVars, pluginVars>>
nonFilterVars == <<segVars, compileVars, msgVars, taskVars, lineVars, docVars, watchVars, ctxVars, insertVars, writeVars, pluginVars>>
nonLineVars == <<segVars, compileVars, msgVars, taskVars, filterVars, docVars, watchVars, ctxVars, insertVars, writeVars, pluginVars>>

-----------------------------------------------------------------------------
(* Bounds                                                                   *)

MaxChunks == 3

MaxCompileChunks == 3

MaxItems == 3

MaxTags == 2

MaxIndent == 2

MaxLines == 4

MaxTasks == 3

MaxInitialFiles == 1

MaxText == 4

MaxQuery == 2

MaxContext == 2

-----------------------------------------------------------------------------
(* Characters and basic string functions                                    *)

NL == "\n"

Lower == {"a","b","c","d","e","f","g","h","i","j","k","l","m",
          "n","o","p","q","r","s","t","u","v","w","x","y","z"}
Upper == {"A","B","C","D","E","F","G","H","I","J","K","L","M",
          "N","O","P","Q","R","S","T","U","V","W","X","Y","Z"}
Digit == {"0","1","2","3","4","5","6","7","8","9"}

\* the class \w of the regular expressions
IsWord(c) == c \in Lower \cup Upper \cup Digit \cup {"_"}

\* the class \s of the regular expressions, as far as the alphabet goes
IsSpace(c) == c \in {" ", NL, "\t"}

Min(a, b) == IF a < b THEN a ELSE b

\* s.substring(from, to) with 0-based offsets, from <= to <= s.length
Substring(s, from, to) == SubSeq(s, from + 1, to)

\* true iff p occurs in s at 0-based offset i
OccursAt(s, p, i) ==
  /\ i >= 0
  /\ i + Len(p) <= Len(s)
  /\ \A k \in 1..Len(p) : s[i + k] = p[k]

\* s.indexOf(p, from): the first offset >= from where p occurs, or -1
IndexOf(s, p, from) ==
  LET hits == {i \in from..(Len(s) - Len(p)) : OccursAt(s, p, i)}
  IN  IF hits = {} THEN -1 ELSE CHOOSE i \in hits : \A j \in hits : i <= j

\* the first 1-based index >= i whose character is not in the run, or Len+1
RECURSIVE WordRunEnd(_, _)
WordRunEnd(s, i) ==
  IF i > Len(s) \/ ~IsWord(s[i]) THEN i ELSE WordRunEnd(s, i + 1)

RECURSIVE SpaceRunEnd(_, _)
SpaceRunEnd(s, i) ==
  IF i > Len(s) \/ ~IsSpace(s[i]) THEN i ELSE SpaceRunEnd(s, i + 1)

RECURSIVE NotBracketRunEnd(_, _)
NotBracketRunEnd(s, i) ==
  IF i > Len(s) \/ s[i] = "]" THEN i ELSE NotBracketRunEnd(s, i + 1)

\* s.trim()
RECURSIVE TrimLeft(_)
TrimLeft(s) ==
  IF s # <<>> /\ IsSpace(s[1]) THEN TrimLeft(Tail(s)) ELSE s

RECURSIVE TrimRight(_)
TrimRight(s) ==
  IF s # <<>> /\ IsSpace(s[Len(s)]) THEN TrimRight(SubSeq(s, 1, Len(s) - 1)) ELSE s

Trim(s) == TrimRight(TrimLeft(s))

\* s.split(sep) for a one-character separator
RECURSIVE Split(_, _)
Split(s, sep) ==
  LET hits == {i \in 1..Len(s) : s[i] = sep}
  IN  IF hits = {} THEN <<s>>
      ELSE LET i == CHOOSE h \in hits : \A j \in hits : h <= j
           IN  <<SubSeq(s, 1, i - 1)>> \o Split(SubSeq(s, i + 1, Len(s)), sep)

\* parts.join(sep)
RECURSIVE Join(_, _)
Join(parts, sep) ==
  IF parts = <<>> THEN <<>>
  ELSE IF Len(parts) = 1 THEN parts[1]
  ELSE parts[1] \o sep \o Join(Tail(parts), sep)

\* array.flat(): the concatenation of a sequence of sequences
RECURSIVE Flatten(_)
Flatten(ss) == IF ss = <<>> THEN <<>> ELSE ss[1] \o Flatten(Tail(ss))

-----------------------------------------------------------------------------
(* Optional values: <<>> is undefined, <<v>> is the value v                 *)

None == <<>>
Some(v) == <<v>>

-----------------------------------------------------------------------------
(* utils: parseObsidianLink, parseImageDimensions, getFileExtension, ...    *)

\* the first 1-based index of c in s, or 0
FirstIndex(s, c) ==
  LET hits == {i \in 1..Len(s) : s[i] = c}
  IN  IF hits = {} THEN 0 ELSE CHOOSE i \in hits : \A j \in hits : i <= j

\* the last 1-based index of c in s, or 0
LastIndex(s, c) ==
  LET hits == {i \in 1..Len(s) : s[i] = c}
  IN  IF hits = {} THEN 0 ELSE CHOOSE i \in hits : \A j \in hits : i >= j

\* pathAndSection.match(/^(.+?)#(.+)$/): the 1-based index of the '#' that
\* splits path and section, or 0 when the expression does not match
SectionSplit(s) ==
  LET hits == {k \in 2..(Len(s) - 1) : s[k] = "#"}
  IN  IF hits = {} \/ (\E k \in 1..Len(s) : s[k] = NL) THEN 0
      ELSE CHOOSE k \in hits : \A j \in hits : k <= j

parseObsidianLink(link) ==
  LET parts == Split(link, "|")
      pathAndSection == parts[1]
      alias == IF Len(parts) >= 2 THEN Some(parts[2]) ELSE None
      k == SectionSplit(pathAndSection)
  IN  IF k > 0
      THEN [path |-> SubSeq(pathAndSection, 1, k - 1),
            section |-> Some(SubSeq(pathAndSection, k + 1, Len(pathAndSection))),
            alias |-> alias]
      ELSE [path |-> pathAndSection, section |-> None, alias |-> alias]

IsDigits(s) == s # <<>> /\ \A k \in 1..Len(s) : s[k] \in Digit

DigitVal(c) ==
  CASE c = "0" -> 0 [] c = "1" -> 1 [] c = "2" -> 2 [] c = "3" -> 3
    [] c = "4" -> 4 [] c = "5" -> 5 [] c = "6" -> 6 [] c = "7" -> 7
    [] c = "8" -> 8 [] c = "9" -> 9

\* parseInt(s, 10) of a string of digits
RECURSIVE ParseInt(_)
ParseInt(s) ==
  IF s = <<>> THEN 0
  ELSE 10 * ParseInt(SubSeq(s, 1, Len(s) - 1)) + DigitVal(s[Len(s)])

parseImageDimensions(link) ==
  LET parts == Split(link, "|")
      path == parts[1]
      dimensionsOrAlt == IF Len(parts) >= 2 THEN parts[2] ELSE <<>>
      x == FirstIndex(dimensionsOrAlt, "x")
      w == IF x = 0 THEN dimensionsOrAlt ELSE SubSeq(dimensionsOrAlt, 1, x - 1)
      h == IF x = 0 THEN <<>> ELSE SubSeq(dimensionsOrAlt, x + 1, Len(dimensionsOrAlt))
  IN  IF dimensionsOrAlt = <<>>
      THEN [path |-> path, width |-> None, height |-> None, alt |-> None]
      ELSE IF IsDigits(w) /\ (x = 0 \/ IsDigits(h))
      THEN [path |-> path, width |-> Some(ParseInt(w)),
            height |-> IF x = 0 THEN None ELSE Some(ParseInt(h)), alt |-> None]
      ELSE [path |-> path, width |-> None, height |-> None,
            alt |-> Some(dimensionsOrAlt)]

ToLowerChar(c) ==
  CASE c = "A" -> "a" [] c = "B" -> "b" [] c = "C" -> "c" [] c = "D" -> "d"
    [] c = "E" -> "e" [] c = "F" -> "f" [] c = "G" -> "g" [] c = "H" -> "h"
    [] c = "I" -> "i" [] c = "J" -> "j" [] c = "K" -> "k" [] c = "L" -> "l"
    [] c = "M" -> "m" [] c = "N" -> "n" [] c = "O" -> "o" [] c = "P" -> "p"
    [] c = "Q" -> "q" [] c = "R" -> "r" [] c = "S" -> "s" [] c = "T" -> "t"
    [] c = "U" -> "u" [] c = "V" -> "v" [] c = "W" -> "w" [] c = "X" -> "x"
    [] c = "Y" -> "y" [] c = "Z" -> "z" [] OTHER -> c

ToLowerCase(s) == [k \in 1..Len(s) |-> ToLowerChar(s[k])]

\* path.match(/\.([^.]+)$/), lower-cased; "" without an extension
getFileExtension(path) ==
  LET d == LastIndex(path, ".")
  IN  IF d = 0 \/ d = Len(path) THEN <<>>
      ELSE ToLowerCase(SubSeq(path, d + 1, Len(path)))

\* extension.toLowerCase().replace('.', ''): the first '.' removed
NormExt(extension) ==
  LET e == ToLowerCase(extension)
      d == FirstIndex(e, ".")
  IN  IF d = 0 THEN e ELSE SubSeq(e, 1, d - 1) \o SubSeq(e, d + 1, Len(e))

ImageExtensions ==
  { <<"j","p","g">>, <<"j","p","e","g">>, <<"p","n","g">>, <<"g","i","f">>,
    <<"w","e","b","p">>, <<"s","v","g">>, <<"b","m","p">>, <<"i","c","o">> }

isImageExtension(extension) == NormExt(extension) \in ImageExtensions

getMimeType(extension) ==
  LET ext == NormExt(extension)
  IN  CASE ext \in {<<"j","p","g">>, <<"j","p","e","g">>} -> "image/jpeg"
        [] ext = <<"p","n","g">> -> "image/png"
        [] ext = <<"g","i","f">> -> "image/gif"
        [] ext = <<"w","e","b","p">> -> "image/webp"
        [] ext = <<"s","v","g">> -> "image/svg+xml"
        [] ext = <<"m","p","3">> -> "audio/mpeg"
        [] ext = <<"w","a","v">> -> "audio/wav"
        [] ext = <<"o","g","g">> -> "audio/ogg"
        [] ext = <<"p","d","f">> -> "application/pdf"
        [] OTHER -> "application/octet-stream"

\* getBaseName(path): the file name without its last extension
getBaseName(path) ==
  LET parts == Split(path, "/")
      fileName == parts[Len(parts)]
      dotIndex == LastIndex(fileName, ".") - 1
  IN  IF dotIndex > 0 THEN SubSeq(fileName, 1, dotIndex) ELSE fileName

\* sanitizeTagName(name)
sanitizeTagName(name) ==
  LET s1 == [k \in 1..Len(name) |->
               IF IsSpace(name[k]) \/ name[k] \in {"-", "."} THEN "_" ELSE name[k]]
      s2 == SelectSeq(s1, IsWord)
      s3 == IF s2 # <<>> /\ s2[1] \in Lower \cup Upper \cup {"_"}
            THEN s2 ELSE <<"_">> \o s2
  IN  IF s3 = <<>> THEN <<"n","o","t","e">> ELSE s3

-----------------------------------------------------------------------------
(* REGEX_PATTERNS: each XxxMatchEnd(s, i) is the 0-based end offset of the  *)
(* match of the pattern that starts at 0-based offset i, or -1              *)

\* s[i] of the source: the character at 0-based offset i, "" past the end
CharAt(s, i) == IF i >= 0 /\ i < Len(s) THEN s[i + 1] ELSE ""

\* VARIABLE: /\{\{(\w+)\}\}/g
VariableMatchEnd(s, i) ==
  LET j == WordRunEnd(s, i + 3) - 1   \* 0-based offset after the \w+ run
  IN  IF /\ CharAt(s, i) = "{" /\ CharAt(s, i + 1) = "{"
         /\ j > i + 2
         /\ CharAt(s, j) = "}" /\ CharAt(s, j + 1) = "}"
      THEN j + 2 ELSE -1

\* LINK: /\[\[([^\]]+)\]\]/g
LinkMatchEnd(s, i) ==
  LET j == NotBracketRunEnd(s, i + 3) - 1   \* 0-based offset after [^\]]+
  IN  IF /\ CharAt(s, i) = "[" /\ CharAt(s, i + 1) = "["
         /\ j > i + 2
         /\ CharAt(s, j) = "]" /\ CharAt(s, j + 1) = "]"
      THEN j + 2 ELSE -1

\* IMAGE and EMBED: /!\[\[([^\]]+)\]\]/g
ImageMatchEnd(s, i) ==
  IF CharAt(s, i) = "!" THEN LinkMatchEnd(s, i + 1) ELSE -1

\* ^ with the m flag: offset i is the start of the input or follows a newline
AtLineStart(s, i) == i = 0 \/ CharAt(s, i - 1) = NL

\* $ with the m flag: offset i is the end of the input or precedes a newline
AtLineEnd(s, i) == i = Len(s) \/ CharAt(s, i) = NL

\* the backquote character (the lexer of TLA+ does not accept it in a string)
BQ == "BACKQUOTE"

Fence == <<BQ, BQ, BQ>>

\* the 0-based offset of the first closing fence (a line that is exactly the
\* three-backquote fence) at or after from, or -1
ClosingFence(s, from) ==
  LET hits == {k \in from..(Len(s) - 3) :
                 AtLineStart(s, k) /\ OccursAt(s, Fence, k) /\ AtLineEnd(s, k + 3)}
  IN  IF hits = {} THEN -1 ELSE CHOOSE k \in hits : \A j \in hits : k <= j

\* the 0-based offset of the newline that ends the opening fence line (fence,
\* word characters, newline) at offset i, or -1
FenceOpenNewline(s, i) ==
  LET j == WordRunEnd(s, i + 4) - 1
  IN  IF AtLineStart(s, i) /\ OccursAt(s, Fence, i) /\ CharAt(s, j) = NL
      THEN j ELSE -1

\* CODE_BLOCK: opening fence line with an optional language, the shortest
\* body, closing fence line (flags gm)
CodeBlockMatchEnd(s, i) ==
  LET j == FenceOpenNewline(s, i)
      k == IF j < 0 THEN -1 ELSE ClosingFence(s, j + 1)
  IN  IF k < 0 THEN -1 ELSE k + 3

DataviewWord == <<"d","a","t","a","v","i","e","w">>

\* DATAVIEW_BLOCK: as CODE_BLOCK with the language dataview
DataviewBlockMatchEnd(s, i) ==
  IF /\ AtLineStart(s, i)
     /\ OccursAt(s, Fence \o DataviewWord \o <<NL>>, i)
     /\ ClosingFence(s, i + 12) >= 0
  THEN ClosingFence(s, i + 12) + 3 ELSE -1

\* DATAVIEW_INLINE: backquote, equals sign, anything up to the next backquote
DataviewInlineMatchEnd(s, i) ==
  LET k == IndexOf(s, <<BQ>>, i + 2)
  IN  IF CharAt(s, i) = BQ /\ CharAt(s, i + 1) = "=" /\ k >= 0
      THEN k + 1 ELSE -1

MatchEnd(pattern, s, i) ==
  CASE pattern = "VARIABLE" -> VariableMatchEnd(s, i)
    [] pattern = "LINK" -> LinkMatchEnd(s, i)
    [] pattern = "IMAGE" -> ImageMatchEnd(s, i)
    [] pattern = "CODE_BLOCK" -> CodeBlockMatchEnd(s, i)
    [] pattern = "DATAVIEW_BLOCK" -> DataviewBlockMatchEnd(s, i)
    [] pattern = "DATAVIEW_INLINE" -> DataviewInlineMatchEnd(s, i)

\* Array.from(s.matchAll(pattern)): the matches, left to right, each search
\* resuming where the previous match ended; a match is [index, end)
RECURSIVE MatchAllFrom(_, _, _)
MatchAllFrom(pattern, s, from) ==
  IF from >= Len(s) THEN <<>>
  ELSE LET e == MatchEnd(pattern, s, from)
       IN  IF e >= 0
           THEN <<[index |-> from, end |-> e]>> \o MatchAllFrom(pattern, s, e)
           ELSE MatchAllFrom(pattern, s, from + 1)

matchAll(pattern, s) == MatchAllFrom(pattern, s, 0)

\* map over a sequence
MapSeq(Op(_), xs) == [k \in 1..Len(xs) |-> Op(xs[k])]

-----------------------------------------------------------------------------
(* The scanners of PromptProcessor                                          *)

Segment(type, c, start, end, raw) ==
  [type |-> type, content |-> c, position |-> [start |-> start, end |-> end],
   raw |-> raw]

parseVariables(s) ==
  MapSeq(LAMBDA m :
           Segment("variable",
                   [name |-> Substring(s, m.index + 2, m.end - 2),
                    defaultValue |-> None],
                   m.index, m.end, Substring(s, m.index, m.end)),
         matchAll("VARIABLE", s))

parseLinks(s) ==
  MapSeq(LAMBDA m :
           Segment("link",
                   parseObsidianLink(Substring(s, m.index + 2, m.end - 2)),
                   m.index, m.end, Substring(s, m.index, m.end)),
         matchAll("LINK", s))

parseImages(s) ==
  MapSeq(LAMBDA m :
           LET imageContent == parseImageDimensions(Substring(s, m.index + 3, m.end - 2))
               extension == getFileExtension(imageContent.path)
           IN  IF isImageExtension(extension)
               THEN Segment("image", imageContent,
                            m.index, m.end, Substring(s, m.index, m.end))
               ELSE Segment("embed", [path |-> imageContent.path],
                            m.index, m.end, Substring(s, m.index, m.end)),
         matchAll("IMAGE", s))

\* line.match(/^>\s*\[!(\w+)\]([+-]?)\s*(.*)$/) on one line
CalloutMatch(line) ==
  LET j == SpaceRunEnd(line, 2)            \* 1-based index of '['
      k == WordRunEnd(line, j + 2)         \* 1-based index of ']'
      hasFold == k + 1 <= Len(line) /\ line[k + 1] \in {"+", "-"}
      t == SpaceRunEnd(line, IF hasFold THEN k + 2 ELSE k + 1)
  IN  IF /\ Len(line) >= 1 /\ line[1] = ">"
         /\ j + 1 <= Len(line) /\ line[j] = "[" /\ line[j + 1] = "!"
         /\ k > j + 2
         /\ k <= Len(line) /\ line[k] = "]"
      THEN [matched |-> TRUE,
            type |-> SubSeq(line, j + 2, k - 1),
            fold |-> IF hasFold THEN line[k + 1] ELSE "",
            title |-> SubSeq(line, t, Len(line))]
      ELSE [matched |-> FALSE]

createCalloutSegment(start, s, type, title, calloutContent, foldable, defaultFolded) ==
  LET fullContent == Join(calloutContent, <<NL>>)
      endLine == start + Len(fullContent) + Len(title) + Len(type) + 10
  IN  Segment("callout",
              [type |-> type, title |-> title, content |-> fullContent,
               foldable |-> foldable, defaultFolded |-> defaultFolded],
              start, Min(endLine, Len(s)),
              <<">", " ", "[", "!">> \o type \o <<"]">>
                \o (IF title # <<>> THEN <<" ">> \o title ELSE <<>>)
                \o <<NL, ">", " ">> \o fullContent)

\* the loop of parseCallouts from line i on; st holds the loop's locals
RECURSIVE CalloutLoop(_, _, _, _)
CalloutLoop(s, lines, i, st) ==
  IF i > Len(lines) THEN st
  ELSE
    LET line == lines[i]
        calloutMatch == CalloutMatch(line)
        pushed == Append(st.segments,
                         createCalloutSegment(st.calloutStart, s, st.calloutType,
                                              st.calloutTitle, st.calloutContent,
                                              st.calloutFoldable,
                                              st.calloutDefaultFolded))
        next ==
          IF calloutMatch.matched
          THEN [segments |-> IF st.inCallout /\ Len(st.calloutContent) > 0
                             THEN pushed ELSE st.segments,
                inCallout |-> TRUE,
                calloutStart |-> IndexOf(s, line, st.calloutStart),
                calloutType |-> calloutMatch.type,
                calloutFoldable |-> calloutMatch.fold # "",
                calloutDefaultFolded |-> calloutMatch.fold = "-",
                calloutTitle |-> calloutMatch.title,
                calloutContent |-> <<>>]
          ELSE IF st.inCallout /\ Len(line) >= 1 /\ line[1] = ">"
          THEN [st EXCEPT !.calloutContent =
                            Append(@, Trim(SubSeq(line, 2, Len(line))))]
          ELSE IF st.inCallout
          THEN [st EXCEPT !.segments = pushed,
                          !.inCallout = FALSE,
                          !.calloutContent = <<>>]
          ELSE st
    IN  CalloutLoop(s, lines, i + 1, next)

parseCallouts(s) ==
  LET st == CalloutLoop(s, Split(s, NL), 1,
                        [segments |-> <<>>, inCallout |-> FALSE, calloutStart |-> 0,
                         calloutContent |-> <<>>, calloutType |-> <<>>,
                         calloutTitle |-> <<>>, calloutFoldable |-> FALSE,
                         calloutDefaultFolded |-> FALSE])
  IN  IF st.inCallout /\ Len(st.calloutContent) > 0
      THEN Append(st.segments,
                  createCalloutSegment(st.calloutStart, s, st.calloutType,
                                       st.calloutTitle, st.calloutContent,
                                       st.calloutFoldable, st.calloutDefaultFolded))
      ELSE st.segments

TextWord == <<"t","e","x","t">>

parseCodeBlocks(s) ==
  LET Language(m) == Substring(s, m.index + 3, FenceOpenNewline(s, m.index))
      kept == SelectSeq(matchAll("CODE_BLOCK", s),
                        LAMBDA m : Language(m) # DataviewWord)
  IN  MapSeq(LAMBDA m :
               Segment("code",
                       [language |-> IF Language(m) # <<>> THEN Language(m) ELSE TextWord,
                        code |-> Substring(s, FenceOpenNewline(s, m.index) + 1, m.end - 3)],
                       m.index, m.end, Substring(s, m.index, m.end)),
             kept)

parseDataView(s) ==
  LET blockSegments ==
        MapSeq(LAMBDA m :
                 Segment("dataview",
                         [query |-> Substring(s, m.index + 12, m.end - 3),
                          type |-> "block"],
                         m.index, m.end, Substring(s, m.index, m.end)),
               matchAll("DATAVIEW_BLOCK", s))
      inlineSegments ==
        MapSeq(LAMBDA m :
                 Segment("dataview",
                         [query |-> Trim(Substring(s, m.index + 2, m.end - 1)),
                          type |-> "inline"],
                         m.index, m.end, Substring(s, m.index, m.end)),
               matchAll("DATAVIEW_INLINE", s))
  IN  blockSegments \o inlineSegments

-----------------------------------------------------------------------------
(* utils: sortByPosition, rangesOverlap, mergeOverlappingSegments           *)

\* x inserted after every element whose start is not greater: a stable sort
RECURSIVE InsertByStart(_, _)
InsertByStart(sorted, x) ==
  IF sorted = <<>> THEN <<x>>
  ELSE IF sorted[1].position.start <= x.position.start
  THEN <<sorted[1]>> \o InsertByStart(Tail(sorted), x)
  ELSE <<x>> \o sorted

RECURSIVE SortFrom(_, _, _)
SortFrom(segs, i, acc) ==
  IF i > Len(segs) THEN acc
  ELSE SortFrom(segs, i + 1, InsertByStart(acc, segs[i]))

\* [...segs].sort((a, b) => a.position.start - b.position.start)
sortByPosition(segs) == SortFrom(segs, 1, <<>>)

\* rangesOverlap with range2.end written for range2.start in the second test
rangesOverlapEndTypo(range1, range2) ==
  range1.start < range2.end /\ range2.end < range1.end

rangesOverlap(range1, range2) ==
  range1.start < range2.end /\ range2.start < range1.end

\* the loop with current compared to the segment before it in sorted, not
\* to the segment kept last
RECURSIVE MergeLoopAgainstPrevious(_, _, _)
MergeLoopAgainstPrevious(sorted, i, res) ==
  IF i > Len(sorted) THEN res
  ELSE LET current == sorted[i]
           last == sorted[i - 1]
       IN  MergeLoopAgainstPrevious(sorted, i + 1,
                     IF ~rangesOverlap(last.position, current.position)
                     THEN Append(res, current) ELSE res)

RECURSIVE MergeLoop(_, _, _)
MergeLoop(sorted, i, res) ==
  IF i > Len(sorted) THEN res
  ELSE LET current == sorted[i]
           last == res[Len(res)]
       IN  MergeLoop(sorted, i + 1,
                     IF ~rangesOverlap(last.position, current.position)
                     THEN Append(res, current) ELSE res)

mergeOverlappingSegments(segs) ==
  IF Len(segs) = 0 THEN <<>>
  ELSE LET sorted == sortByPosition(segs)
       IN  MergeLoop(sorted, 2, <<sorted[1]>>)

-----------------------------------------------------------------------------
(* PromptProcessor.insertTextSegments and parseSegments                     *)

TextSegment(s, from, to) ==
  Segment("text", [text |-> Substring(s, from, to)], from, to, Substring(s, from, to))

\* the for loop of insertTextSegments from segment i on
RECURSIVE InsertLoop(_, _, _, _, _)
InsertLoop(s, segs, i, lastEnd, res) ==
  IF i > Len(segs) THEN [result |-> res, lastEnd |-> lastEnd]
  ELSE LET segment == segs[i]
           gap == IF /\ segment.position.start > lastEnd
                     /\ Trim(Substring(s, lastEnd, segment.position.start)) # <<>>
                  THEN <<TextSegment(s, lastEnd, segment.position.start)>>
                  ELSE <<>>
       IN  InsertLoop(s, segs, i + 1, segment.position.end,
                      res \o gap \o <<segment>>)

insertTextSegments(s, segs) ==
  LET leading ==
        IF /\ Len(segs) > 0
           /\ segs[1].position.start > 0
           /\ Trim(Substring(s, 0, segs[1].position.start)) # <<>>
        THEN <<TextSegment(s, 0, segs[1].position.start)>>
        ELSE <<>>
      loop == InsertLoop(s, segs, 1, 0, leading)
      trailing ==
        IF /\ loop.lastEnd < Len(s)
           /\ Trim(Substring(s, loop.lastEnd, Len(s))) # <<>>
        THEN <<TextSegment(s, loop.lastEnd, Len(s))>>
        ELSE <<>>
  IN  loop.result \o trailing

\* the concatenated output of the six scanners, in the order of parsers
scanAll(s) ==
  parseVariables(s) \o parseLinks(s) \o parseImages(s)
    \o parseCallouts(s) \o parseCodeBlocks(s) \o parseDataView(s)

mergeSegments(all) == sortByPosition(mergeOverlappingSegments(all))

parseSegments(s) == insertTextSegments(s, mergeSegments(scanAll(s)))

-----------------------------------------------------------------------------
(* SpecSeg: parseSegments applied to bounded documents                      *)

\* the pieces documents are assembled from: plain text, whitespace, and
\* whole or partial constructs, so that constructs nest and overlap
Chunks ==
  { <<"a">>, <<" ">>, <<NL>>,
    <<"{","{","a","}","}">>,
    <<"[","[">>, <<"]","]">>, <<"!">>,
    <<"[","[","A","]","]">>,
    <<"[","[","p",".","p","n","g","]","]">>,
    <<">"," ","[","!","n","]",NL>>,
    <<">"," ","b",NL>>,
    <<BQ,BQ,BQ,NL>>,
    <<BQ,BQ,BQ,"d","a","t","a","v","i","e","w",NL>>,
    <<BQ,"=","a",BQ>> }

\* every concatenation of at most n chunks
RECURSIVE DocsUpTo(_)
DocsUpTo(n) ==
  IF n = 0 THEN {<<>>}
  ELSE LET shorter == DocsUpTo(n - 1)
       IN  shorter \cup {d \o c : d \in shorter, c \in Chunks}

Docs == DocsUpTo(MaxChunks)

\* pieces whose links and inline queries overlap without nesting
OverlapChunks ==
  { <<"a">>, <<BQ>>, <<"!">>,
    <<"[","[","A","]","]">>,
    <<"[","[",BQ,"=","]","]">>,
    <<BQ,"=","a",BQ>> }

RECURSIVE OverlapDocsUpTo(_)
OverlapDocsUpTo(n) ==
  IF n = 0 THEN {<<>>}
  ELSE OverlapDocsUpTo(n - 1)
         \cup {d \o c : d \in OverlapDocsUpTo(n - 1), c \in OverlapChunks}

OverlapInit ==
  /\ content \in OverlapDocsUpTo(MaxChunks)
  /\ allSegments = <<>>
  /\ mergedSegments = <<>>
  /\ completeSegments = <<>>
  /\ segPc = "input"

SegInit ==
  /\ content \in Docs
  /\ allSegments = <<>>
  /\ mergedSegments = <<>>
  /\ completeSegments = <<>>
  /\ segPc = "input"

\* PromptProcessor.parseSegments(content)
ParseSegments ==
  /\ segPc = "input"
  /\ allSegments' = scanAll(content)
  /\ mergedSegments' = mergeSegments(allSegments')
  /\ completeSegments' = insertTextSegments(content, mergedSegments')
  /\ segPc' = "parsed"
  /\ UNCHANGED <<content, nonSegVars>>

-----------------------------------------------------------------------------
(* The vault: the document store, the reference resolver and the tag index  *)
(* (black boxes of the host; see the spec's external interfaces)            *)

RootPath == <<"R",".","m","d">>
PathA == <<"A",".","m","d">>
PathB == <<"B",".","m","d">>
PathP == <<"p",".","p","n","g">>

\* the body of a document: the prompt file, A that links to B, and B that
\* links back to the prompt file
FileText(path, root) ==
  CASE path = RootPath -> root
    [] path = PathA -> <<"[","[","B","]","]">>
    [] path = PathB -> <<"[","[","R","]","]">>
    [] OTHER -> <<"?">>

\* the bytes of a binary file
FileBinary(path) == IF path = PathP THEN <<137, 80, 78, 71>> ELSE <<0>>

\* TFile.extension
FileExtension(path) == getFileExtension(path)

MdSuffix == <<".","m","d">>

\* metadataCache.getFirstLinkpathDest(linkpath, sourcePath): the file of the
\* vault the link path names, with or without the .md suffix; None if absent
getFirstLinkpathDest(fs, linkpath) ==
  LET cands == {f \in fs : f = linkpath \/ f = linkpath \o MdSuffix}
  IN  IF cands = {} THEN None ELSE Some(CHOOSE f \in cands : TRUE)

\* getAllTags(metadataCache.getFileCache(file))
TagsOf(path) == IF path = PathA THEN {<<"#","t">>} ELSE {}

\* vault.getMarkdownFiles(), in the host's order
getMarkdownFiles(fs) ==
  SelectSeq(<<RootPath, PathA, PathB>>, LAMBDA f : f \in fs)

-----------------------------------------------------------------------------
(* utils.bufferToBase64                                                     *)

Base64Alphabet ==
  <<"A","B","C","D","E","F","G","H","I","J","K","L","M",
    "N","O","P","Q","R","S","T","U","V","W","X","Y","Z",
    "a","b","c","d","e","f","g","h","i","j","k","l","m",
    "n","o","p","q","r","s","t","u","v","w","x","y","z",
    "0","1","2","3","4","5","6","7","8","9","+","/">>

B64(n) == Base64Alphabet[n + 1]

\* btoa of the bytes, three bytes to four characters, padded with '='
RECURSIVE bufferToBase64(_)
bufferToBase64(bytes) ==
  IF Len(bytes) = 0 THEN <<>>
  ELSE IF Len(bytes) = 1
  THEN <<B64(bytes[1] \div 4), B64((bytes[1] % 4) * 16), "=", "=">>
  ELSE IF Len(bytes) = 2
  THEN <<B64(bytes[1] \div 4),
         B64((bytes[1] % 4) * 16 + bytes[2] \div 16),
         B64((bytes[2] % 16) * 4), "=">>
  ELSE <<B64(bytes[1] \div 4),
         B64((bytes[1] % 4) * 16 + bytes[2] \div 16),
         B64((bytes[2] % 16) * 4 + bytes[3] \div 64),
         B64(bytes[3] % 64)>>
       \o bufferToBase64(SubSeq(bytes, 4, Len(bytes)))

-----------------------------------------------------------------------------
(* PromptProcessor.executeDataViewQuery                                     *)

\* the literal word at 0-based offset i of s, ignoring case (flag i)
OccursAtCI(s, word, i) ==
  /\ i >= 0
  /\ i + Len(word) <= Len(s)
  /\ \A k \in 1..Len(word) : ToLowerChar(s[i + k]) = ToLowerChar(word[k])

\* whitespace, FROM, whitespace, '#', tag name at 0-based offset i: the
\* 0-based offsets [from, to) of the tag name, or None
FromTagAt(s, i) ==
  LET a == SpaceRunEnd(s, i + 1) - 1          \* after the first whitespace run
      b == SpaceRunEnd(s, a + 5) - 1          \* after the second whitespace run
      c == WordRunEnd(s, b + 2) - 1           \* after the tag name
  IN  IF /\ a > i
         /\ OccursAtCI(s, <<"F","R","O","M">>, a)
         /\ b > a + 4
         /\ CharAt(s, b) = "#"
         /\ c > b + 1
      THEN Some([from |-> b + 1, to |-> c]) ELSE None

\* query.match(/LIST\s+FROM\s+#(\w+)/i): the tag name, or None
ListMatch(q) ==
  LET hits == {i \in 0..Len(q) :
                 OccursAtCI(q, <<"L","I","S","T">>, i) /\ FromTagAt(q, i + 4) # None}
      i0 == CHOOSE i \in hits : \A j \in hits : i <= j
      t == FromTagAt(q, i0 + 4)[1]
  IN  IF hits = {} THEN None ELSE Some(Substring(q, t.from, t.to))

\* the match of /TABLE\s+(.+?)\s+FROM\s+#(\w+)/i that starts at offset i:
\* the field list and the tag name, or None
TableMatchAt(q, i) ==
  LET x0 == SpaceRunEnd(q, i + 6) - 1        \* the first character of the fields
      ends == {p \in (x0 + 1)..Len(q) : FromTagAt(q, p) # None}
      p0 == CHOOSE p \in ends : \A r \in ends : p <= r
      t == FromTagAt(q, p0)[1]
  IN  IF /\ OccursAtCI(q, <<"T","A","B","L","E">>, i)
         /\ x0 > i + 5
         /\ ends # {}
         /\ \A k \in x0..(p0 - 1) : CharAt(q, k) # NL
      THEN Some([fields |-> Substring(q, x0, p0), tag |-> Substring(q, t.from, t.to)])
      ELSE None

TableMatch(q) ==
  LET hits == {i \in 0..Len(q) : TableMatchAt(q, i) # None}
  IN  IF hits = {} THEN None
      ELSE TableMatchAt(q, CHOOSE i \in hits : \A j \in hits : i <= j)

\* the number of pieces of s.split(pat) beyond the first, from offset from on
RECURSIVE CountFrom(_, _, _)
CountFrom(s, pat, from) ==
  LET k == IndexOf(s, pat, from)
  IN  IF k < 0 THEN 0 ELSE 1 + CountFrom(s, pat, k + Len(pat))

FileLink(f) == <<"[","[">> \o getBaseName(f) \o <<"]","]">>

Bar == <<" ", "|", " ">>

NoResultsFound ==
  <<"N","o"," ","r","e","s","u","l","t","s"," ","f","o","u","n","d">>

executeDataViewQuery(fs, query) ==
  LET listMatch == ListMatch(query)
      tableMatch == TableMatch(query)
      Tagged(tag) == SelectSeq(getMarkdownFiles(fs),
                               LAMBDA f : (<<"#">> \o tag) \in TagsOf(f))
  IN  IF listMatch # None
      THEN LET results == MapSeq(LAMBDA f : <<"-", " ">> \o FileLink(f),
                                 Tagged(listMatch[1]))
           IN  IF Join(results, <<NL>>) # <<>> THEN Join(results, <<NL>>)
               ELSE NoResultsFound
      ELSE IF tableMatch # None
      THEN LET fields == MapSeq(Trim, Split(tableMatch[1].fields, ","))
               matchingFiles == Tagged(tableMatch[1].tag)
               headers == Join(<<<<"F","i","l","e">>>> \o fields, Bar)
               separator == Join([k \in 1..(CountFrom(headers, Bar, 0) + 1) |->
                                    <<"-","-","-">>], Bar)
               rows == MapSeq(LAMBDA f :
                                Join(<<FileLink(f)>> \o [k \in 1..Len(fields) |-> <<"-">>],
                                     Bar),
                              matchingFiles)
           IN  IF Len(matchingFiles) = 0
               THEN NoResultsFound
               ELSE Join(<<headers, separator>> \o rows, <<NL>>)
      ELSE <<"<","!","-","-"," ","U","n","s","u","p","p","o","r","t","e","d"," ",
             "D","a","t","a","V","i","e","w"," ","q","u","e","r","y",":"," ">>
           \o query \o <<" ","-","-",">">>

-----------------------------------------------------------------------------
(* PromptProcessor.processSegment                                           *)

TextItem(t) == [type |-> "text", text |-> t]

ImageItem(data, mimeType) == [type |-> "image", data |-> data, mimeType |-> mimeType]

\* the text a linked or embedded note is inlined as
WrapNote(path, body) ==
  LET tagName == sanitizeTagName(getBaseName(path))
  IN  <<NL, "<">> \o tagName \o <<">", NL>> \o body
        \o <<NL, "<", "/">> \o tagName \o <<">", NL>>

WrapCallout(c) ==
  LET tagName == sanitizeTagName(c.type)
  IN  IF c.title # <<>>
      THEN <<NL, "<">> \o tagName \o <<" ","t","i","t","l","e","=","\"">>
             \o c.title \o <<"\"", ">", NL>> \o c.content
             \o <<NL, "<", "/">> \o tagName \o <<">", NL>>
      ELSE <<NL, "<">> \o tagName \o <<">", NL>> \o c.content
             \o <<NL, "<", "/">> \o tagName \o <<">", NL>>

WrapCode(c) ==
  <<NL, "<","c","o","d","e"," ","l","a","n","g","u","a","g","e","=","\"">>
    \o c.language \o <<"\"", ">", NL>> \o c.code
    \o <<NL, "<","/","c","o","d","e",">", NL>>

WrapDataView(results) ==
  <<NL, "<","d","a","t","a","v","i","e","w","-","r","e","s","u","l","t","s",">", NL>>
    \o results
    \o <<NL, "<","/","d","a","t","a","v","i","e","w","-","r","e","s","u","l","t","s",">", NL>>

\* context.variables.get(name) || defaultValue || the placeholder: the first
\* of the three that is neither undefined nor the empty string
VariableValue(variables, c) ==
  IF c.name \in DOMAIN variables /\ variables[c.name] # <<>>
  THEN variables[c.name]
  ELSE IF c.defaultValue # None /\ c.defaultValue[1] # <<>>
  THEN c.defaultValue[1]
  ELSE <<"{","{">> \o c.name \o <<"}","}">>

Warning(msg, path) == [msg |-> msg, path |-> path]

Settled(ctx, items) ==
  [context |-> ctx, status |-> "done", out |-> items, file |-> None]

Awaiting(ctx, f) ==
  [context |-> ctx, status |-> "pending", out |-> <<>>, file |-> Some(f)]

\* the cycle check comparing the note name instead of the path
LinkIsVisitedByName(ctx, f) == getBaseName(f) \in ctx.visitedFiles

\* context.visitedFiles.has(linkedFile.path)
LinkIsVisited(ctx, f) == f \in ctx.visitedFiles

\* context.currentDepth >= context.maxDepth
LinkTooDeep(ctx) == ctx.currentDepth >= ctx.maxDepth

\* processSegment up to its first await: the new context, the output if the
\* segment settles without a read, or the file whose read it awaits
StartSegment(fs, seg, ctx) ==
  CASE seg.type = "text" ->
         Settled(ctx, <<TextItem(seg.content.text)>>)
    [] seg.type = "variable" ->
         Settled(ctx, <<TextItem(VariableValue(ctx.variables, seg.content))>>)
    [] seg.type = "link" ->
         LET linkedFile == getFirstLinkpathDest(fs, seg.content.path)
         IN  IF linkedFile # None
             THEN IF LinkIsVisited(ctx, linkedFile[1])
                  THEN Settled([ctx EXCEPT !.warnings =
                                  Append(@, Warning("Circular reference detected",
                                                    linkedFile[1]))],
                               <<TextItem(seg.raw)>>)
                  ELSE IF LinkTooDeep(ctx)
                  THEN Settled([ctx EXCEPT !.warnings =
                                  Append(@, Warning("Max depth reached for",
                                                    linkedFile[1]))],
                               <<TextItem(seg.raw)>>)
                  ELSE Awaiting(ctx, linkedFile[1])
             ELSE Settled(ctx, <<TextItem(seg.raw)>>)
    [] seg.type = "image" ->
         LET imageFile == getFirstLinkpathDest(fs, seg.content.path)
         IN  IF imageFile # None
             THEN Awaiting(ctx, imageFile[1])
             ELSE Settled([ctx EXCEPT !.warnings =
                             Append(@, Warning("Image not found", seg.content.path))],
                          <<>>)
    [] seg.type = "embed" ->
         LET embedFile == getFirstLinkpathDest(fs, seg.content.path)
         IN  IF embedFile # None
             THEN IF embedFile[1] \in ctx.visitedFiles
                  THEN Settled([ctx EXCEPT !.warnings =
                                  Append(@, Warning("Circular embed detected",
                                                    embedFile[1]))],
                               <<TextItem(seg.raw)>>)
                  ELSE Awaiting(ctx, embedFile[1])
             ELSE Settled(ctx, <<TextItem(seg.raw)>>)
    [] seg.type = "callout" ->
         Settled(ctx, <<TextItem(WrapCallout(seg.content))>>)
    [] seg.type = "code" ->
         Settled(ctx, <<TextItem(WrapCode(seg.content))>>)
    [] seg.type = "dataview" ->
         Settled(ctx, <<TextItem(WrapDataView(
                          executeDataViewQuery(fs, seg.content.query)))>>)
    [] OTHER -> Settled(ctx, <<>>)

\* a call of vault.read or vault.readBinary: the file, the segment that
\* awaits it (0 for processPrompt itself) and how it ended
Read(path, by) == [path |-> path, by |-> by, outcome |-> "pending"]

\* the promises and the context after segment i was started with result r
Started(acc, i, r) ==
  [context |-> r.context,
   status |-> Append(acc.status, r.status),
   out |-> Append(acc.out, r.out),
   file |-> Append(acc.file, r.file),
   reads |-> IF r.status = "pending"
             THEN Append(acc.reads, Read(r.file[1], i))
             ELSE acc.reads]

\* segments.map((segment) => this.processSegment(segment, context)): every
\* segment is started, in document order, before any read completes
RECURSIVE StartAll(_, _, _, _)
StartAll(fs, segs, i, acc) ==
  IF i > Len(segs) THEN acc
  ELSE StartAll(fs, segs, i + 1,
                Started(acc, i, StartSegment(fs, segs[i], acc.context)))

\* processSegment whose catch returns nothing for a link or an embed
AfterReadDropsRaw(seg, f, root, ok) ==
  CASE seg.type = "link" ->
         IF ok THEN [out |-> <<TextItem(WrapNote(f, FileText(f, root)))>>,
                     errors |-> <<>>]
         ELSE [out |-> <<>>,
               errors |-> <<Warning("Failed to read linked file", f)>>]
    [] seg.type = "image" ->
         IF ok THEN [out |-> <<ImageItem(bufferToBase64(FileBinary(f)),
                                         getMimeType(FileExtension(f)))>>,
                     errors |-> <<>>]
         ELSE [out |-> <<>>,
               errors |-> <<Warning("Failed to read image", f)>>]
    [] seg.type = "embed" ->
         IF ok THEN [out |-> <<TextItem(WrapNote(f, FileText(f, root)))>>,
                     errors |-> <<>>]
         ELSE [out |-> <<>>,
               errors |-> <<Warning("Failed to read embed", f)>>]

\* processSegment after its read completed (ok) or threw (~ok): the output of
\* the segment and the error recorded, if any
AfterRead(seg, f, root, ok) ==
  CASE seg.type = "link" ->
         IF ok THEN [out |-> <<TextItem(WrapNote(f, FileText(f, root)))>>,
                     errors |-> <<>>]
         ELSE [out |-> <<TextItem(seg.raw)>>,
               errors |-> <<Warning("Failed to read linked file", f)>>]
    [] seg.type = "image" ->
         IF ok THEN [out |-> <<ImageItem(bufferToBase64(FileBinary(f)),
                                         getMimeType(FileExtension(f)))>>,
                     errors |-> <<>>]
         ELSE [out |-> <<>>,
               errors |-> <<Warning("Failed to read image", f)>>]
    [] seg.type = "embed" ->
         IF ok THEN [out |-> <<TextItem(WrapNote(f, FileText(f, root)))>>,
                     errors |-> <<>>]
         ELSE [out |-> <<TextItem(seg.raw)>>,
               errors |-> <<Warning("Failed to read embed", f)>>]

-----------------------------------------------------------------------------
(* PromptProcessor.toPromptMessages and buildResult                         *)

Message(c) == [role |-> "user", content |-> c]

\* the reducer assigning the text of the item instead of appending it
AddItemOverwrites(acc, item) ==
  IF item.type = "text"
  THEN IF Len(acc) > 0 /\ acc[Len(acc)].content.type = "text"
       THEN [acc EXCEPT ![Len(acc)].content.text = item.text]
       ELSE Append(acc, Message([type |-> "text", text |-> item.text]))
  ELSE IF item.type = "image"
  THEN Append(acc, Message([type |-> "image", data |-> item.data,
                            mimeType |-> item.mimeType]))
  ELSE acc

\* the reducer of toPromptMessages: the messages after one more item
AddItem(acc, item) ==
  IF item.type = "text"
  THEN IF Len(acc) > 0 /\ acc[Len(acc)].content.type = "text"
       THEN [acc EXCEPT ![Len(acc)].content.text = @ \o item.text]
       ELSE Append(acc, Message([type |-> "text", text |-> item.text]))
  ELSE IF item.type = "image"
  THEN Append(acc, Message([type |-> "image", data |-> item.data,
                            mimeType |-> item.mimeType]))
  ELSE acc

RECURSIVE ReduceItems(_, _, _)
ReduceItems(items, i, acc) ==
  IF i > Len(items) THEN acc
  ELSE ReduceItems(items, i + 1, AddItem(acc, items[i]))

toPromptMessages(items) == ReduceItems(items, 1, <<>>)

extractMetadata(items) ==
  [variables |-> <<>>, links |-> <<>>, embeds |-> <<>>, images |-> <<>>,
   hasDataView |-> FALSE, hasCallouts |-> FALSE, hasCodeBlocks |-> FALSE]

buildResult(items) ==
  [messages |-> toPromptMessages(items),
   metadata |-> extractMetadata(items),
   errors |-> <<>>,
   warnings |-> <<>>]

Ok(v) == [ok |-> TRUE, value |-> v]
Err(e) == [ok |-> FALSE, error |-> e]

-----------------------------------------------------------------------------
(* SpecCompile: one processPrompt call on a bounded vault                   *)

\* the pieces the prompt file is assembled from
CompileChunks ==
  { <<"a">>,
    <<"{","{","a","}","}">>,
    <<"!">>,
    <<"[","[","A","]","]">>,
    <<"[","[","R","]","]">>,
    <<"[","[","p",".","p","n","g","]","]">> }

RECURSIVE CompileDocsUpTo(_)
CompileDocsUpTo(n) ==
  IF n = 0 THEN {<<>>}
  ELSE LET shorter == CompileDocsUpTo(n - 1)
       IN  shorter \cup {d \o c : d \in shorter, c \in CompileChunks}

\* the vaults: the prompt file and B always exist, A and the picture may not
Vaults == {{RootPath, PathB} \cup more : more \in SUBSET {PathA, PathP}}

VarName == <<"a">>

\* the args of processPrompt: none, a bound to a value, a bound to ""
ArgSets == { <<>>, VarName :> <<"v">>, VarName :> <<>> }

NoResult == [ok |-> FALSE, error |-> "none"]

EmptyContext ==
  [variables |-> <<>>, maxDepth |-> 0, currentDepth |-> 0, visitedFiles |-> {},
   errors |-> <<>>, warnings |-> <<>>]

\* the ProcessingContext processSegments creates
NewContext(a) ==
  [variables |-> a,
   maxDepth |-> 5,
   currentDepth |-> 0,
   visitedFiles |-> {RootPath},
   errors |-> <<>>,
   warnings |-> <<>>]

CompileInit ==
  /\ files \in Vaults
  /\ rootContent \in CompileDocsUpTo(MaxCompileChunks)
  /\ cpc = "idle"
  /\ args = <<>>
  /\ segments = <<>>
  /\ context = EmptyContext
  /\ status = <<>>
  /\ out = <<>>
  /\ pendingFile = <<>>
  /\ reads = <<>>
  /\ settled = <<>>
  /\ result = NoResult

\* processPrompt(args) is called and awaits vault.read(this.file)
ProcessPrompt(a) ==
  /\ cpc = "idle"
  /\ cpc' = "readingRoot"
  /\ args' = a
  /\ reads' = Append(reads, Read(RootPath, 0))
  /\ UNCHANGED <<files, rootContent, segments, context, status, out,
                 pendingFile, settled, result, nonCompileVars>>

\* the read of the prompt file throws: the catch of processPrompt
RootReadFails ==
  /\ cpc = "readingRoot"
  /\ cpc' = "done"
  /\ result' = Err("Failed to process prompt")
  /\ reads' = [reads EXCEPT ![1].outcome = "failed"]
  /\ UNCHANGED <<files, rootContent, args, segments, context, status, out,
                 pendingFile, settled, nonCompileVars>>

\* the promises of processSegments for the parsed segments segs
processSegments(segs, a, rs) ==
  [segments |-> segs,
   started |-> StartAll(files, segs, 1,
                        [context |-> NewContext(a), status |-> <<>>,
                         out |-> <<>>, file |-> <<>>, reads |-> rs])]

\* the state of the compile at the await of Promise.all
AwaitAll(p) ==
  /\ segments' = p.segments
  /\ context' = p.started.context
  /\ status' = p.started.status
  /\ out' = p.started.out
  /\ pendingFile' = p.started.file
  /\ reads' = p.started.reads

\* the read of the prompt file returns: parseSegments, then processSegments
\* up to the await of Promise.all
RootReadOk ==
  /\ cpc = "readingRoot"
  /\ AwaitAll(processSegments(parseSegments(rootContent), args,
                              [reads EXCEPT ![1].outcome = "ok"]))
  /\ cpc' = "processing"
  /\ UNCHANGED <<files, rootContent, args, settled, result, nonCompileVars>>

\* a read that is issued again when it throws
ReadCompletesRetries(i, ok) ==
  /\ cpc = "processing"
  /\ i \in 1..Len(segments)
  /\ status[i] = "pending"
  /\ LET r == AfterRead(segments[i], pendingFile[i][1], rootContent, ok)
     IN  /\ out' = [out EXCEPT ![i] = IF ok THEN r.out ELSE @]
         /\ context' = [context EXCEPT !.errors = @ \o r.errors]
  /\ status' = [status EXCEPT ![i] = IF ok THEN "done" ELSE @]
  /\ reads' = IF ok
              THEN [k \in 1..Len(reads) |->
                     IF reads[k].by = i /\ reads[k].outcome = "pending"
                     THEN [reads[k] EXCEPT !.outcome = "ok"]
                     ELSE reads[k]]
              ELSE Append([k \in 1..Len(reads) |->
                             IF reads[k].by = i
                             THEN [reads[k] EXCEPT !.outcome = "failed"]
                             ELSE reads[k]],
                          Read(pendingFile[i][1], i))
  /\ settled' = Append(settled, i)
  /\ UNCHANGED <<files, rootContent, cpc, args, segments, pendingFile,
                 result, nonCompileVars>>

\* the read awaited by segment i returns (ok) or throws (~ok)
ReadCompletes(i, ok) ==
  /\ cpc = "processing"
  /\ i \in 1..Len(segments)
  /\ status[i] = "pending"
  /\ LET r == AfterRead(segments[i], pendingFile[i][1], rootContent, ok)
     IN  /\ out' = [out EXCEPT ![i] = r.out]
         /\ context' = [context EXCEPT !.errors = @ \o r.errors]
  /\ status' = [status EXCEPT ![i] = "done"]
  /\ reads' = [k \in 1..Len(reads) |->
                IF reads[k].by = i
                THEN [reads[k] EXCEPT !.outcome = IF ok THEN "ok" ELSE "failed"]
                ELSE reads[k]]
  /\ settled' = Append(settled, i)
  /\ UNCHANGED <<files, rootContent, cpc, args, segments, pendingFile,
                 result, nonCompileVars>>

\* the outputs collected as the promises settle instead of by Promise.all
FinishInSettleOrder ==
  /\ cpc = "processing"
  /\ \A i \in 1..Len(segments) : status[i] = "done"
  /\ LET immediate == SelectSeq([i \in 1..Len(segments) |-> i],
                                LAMBDA i : \A k \in 1..Len(settled) : settled[k] # i)
         order == immediate \o settled
     IN  result' = Ok(buildResult(Flatten([k \in 1..Len(order) |-> out[order[k]]])))
  /\ cpc' = "done"
  /\ UNCHANGED <<files, rootContent, args, segments, context, status, out,
                 pendingFile, reads, settled, nonCompileVars>>

\* Promise.all resolves: flat(), buildResult, return ok(result)
Finish ==
  /\ cpc = "processing"
  /\ \A i \in 1..Len(segments) : status[i] = "done"
  /\ result' = Ok(buildResult(Flatten(out)))
  /\ cpc' = "done"
  /\ UNCHANGED <<files, rootContent, args, segments, context, status, out,
                 pendingFile, reads, settled, nonCompileVars>>

-----------------------------------------------------------------------------
(* SpecMsg: toPromptMessages applied to bounded item sequences              *)

Items ==
  { TextItem(<<"a">>), TextItem(<<"b">>), TextItem(<<>>),
    ImageItem(<<"A","Q","=","=">>, "image/png"),
    ImageItem(<<"A","g","=","=">>, "image/gif") }

ItemSeqs == UNION {[1..n -> Items] : n \in 0..MaxItems}

MsgInit ==
  /\ processed \in ItemSeqs
  /\ messages = <<>>
  /\ msgPc = "input"

\* PromptProcessor.toPromptMessages(processed)
ToPromptMessages ==
  /\ msgPc = "input"
  /\ messages' = toPromptMessages(processed)
  /\ msgPc' = "built"
  /\ UNCHANGED <<processed, nonMsgVars>>

-----------------------------------------------------------------------------
(* types/tasks: the task record and the emoji of the task line convention.  *)
(* A character outside ASCII is written as its code point, and an emoji is  *)
(* the sequence of the characters of its string in the source text.         *)

PRIORITY_EMOJIS ==
  [highest |-> <<"U+00E2", "U+00AB">>,
   high    |-> <<"U+011F", "U+0178", "U+201D", "U+00BC">>,
   low     |-> <<"U+011F", "U+0178", "U+201D", "U+00BD">>,
   lowest  |-> <<"U+00E2", "U+00AC">>]

DATE_EMOJIS ==
  [due       |-> <<"U+011F", "U+0178", "U+201C", "U+2026">>,
   scheduled |-> <<"U+00E2", "U+00B3">>,
   start     |-> <<"U+011F", "U+0178", "U+203A", "U+00AB">>,
   completed |-> <<"U+00E2", "U+0153", "U+2026">>,
   created   |-> <<"U+00E2", "U+2022">>]

RECURRENCE_EMOJI == <<"U+011F", "U+0178", "U+201D">>

CHECKBOX_PATTERNS ==
  [open        |-> <<"[", " ", "]">>,
   done        |-> <<"[", "x", "]">>,
   in_progress |-> <<"[", "/", "]">>,
   cancelled   |-> <<"[", "-", "]">>,
   important   |-> <<"[", "!", "]">>,
   question    |-> <<"[", "?", "]">>]

\* Object.values / Object.entries: the keys in insertion order
PriorityKeys == <<"highest", "high", "low", "lowest">>
DateKeys == <<"due", "scheduled", "start", "completed", "created">>

PriorityEmojiList == [k \in 1..Len(PriorityKeys) |-> PRIORITY_EMOJIS[PriorityKeys[k]]]
DateEmojiList == [k \in 1..Len(DateKeys) |-> DATE_EMOJIS[DateKeys[k]]]

\* the characters of a list of strings: a character class built by join('')
CharsOf(list) == UNION {{list[k][j] : j \in 1..Len(list[k])} : k \in 1..Len(list)}

\* TaskDates with no date
NoDates ==
  [due |-> None, scheduled |-> None, start |-> None, completed |-> None,
   created |-> None]

-----------------------------------------------------------------------------
(* utils/taskUpdater: formatTask and its parts                              *)

formatCheckbox(st) ==
  <<"[">> \o SelectSeq(CHECKBOX_PATTERNS[st], LAMBDA c : c \notin {"[", "]"})
         \o <<"]">>

\* priority is None or Some(key)
formatPriority(priority) ==
  IF priority = None THEN <<>> ELSE PRIORITY_EMOJIS[priority[1]]

\* date is None or Some(text); the empty text is falsy
formatDate(dateType, date) ==
  IF date = None \/ date = Some(<<>>) THEN <<>>
  ELSE DATE_EMOJIS[dateType] \o <<" ">> \o date[1]

formatRecurrence(recurrence) ==
  IF recurrence = None \/ recurrence = Some(<<>>) THEN <<>>
  ELSE RECURRENCE_EMOJI \o <<" ">> \o recurrence[1]

formatTags(tags) == Join([k \in 1..Len(tags) |-> <<"#">> \o tags[k]], <<" ">>)

\* the dates of a task that formatTask pushes, in its order
DateParts(dates) ==
  LET present == SelectSeq(DateKeys,
                           LAMBDA k : dates[k] # None /\ dates[k] # Some(<<>>))
  IN  [k \in 1..Len(present) |-> formatDate(present[k], dates[present[k]])]

formatTask(t) ==
  LET indent == [k \in 1..t.indent |-> " "]
      head == indent \o <<"-", " ">> \o formatCheckbox(t.status)
                \o <<" ">> \o t.text
      parts == <<head>>
                 \o (IF t.priority # None THEN <<formatPriority(t.priority)>>
                     ELSE <<>>)
                 \o DateParts(t.dates)
                 \o (IF t.recurrence # None /\ t.recurrence # Some(<<>>)
                     THEN <<formatRecurrence(t.recurrence)>> ELSE <<>>)
                 \o (IF Len(t.tags) > 0 THEN <<formatTags(t.tags)>> ELSE <<>>)
  IN  Join(parts, <<" ">>)

-----------------------------------------------------------------------------
(* utils/taskParser: parseTaskLine and its parts                            *)

\* the first 1-based index >= i whose character is in cls, or Len + 1
RECURSIVE NotInRunEnd(_, _, _)
NotInRunEnd(s, i, cls) ==
  IF i > Len(s) \/ s[i] \in cls THEN i ELSE NotInRunEnd(s, i + 1, cls)

\* the 0-based offset where the run of whitespace ending at offset q starts,
\* not below offset pos
RECURSIVE SpaceRunStart(_, _, _)
SpaceRunStart(s, q, pos) ==
  IF q > pos /\ IsSpace(s[q]) THEN SpaceRunStart(s, q - 1, pos) ELSE q

\* line.match of the checkbox expression: whitespace, '-', whitespace, '[',
\* one character that is no line terminator, ']', anchored at the start.
\* None, or the indentation, the character and the offset after the match
CheckboxMatch(line) ==
  LET i == SpaceRunEnd(line, 1)
      j == SpaceRunEnd(line, i + 1)
  IN  IF /\ i <= Len(line)
         /\ line[i] = "-"
         /\ j + 2 <= Len(line)
         /\ line[j] = "["
         /\ line[j + 1] # NL
         /\ line[j + 2] = "]"
      THEN Some([indent |-> i - 1, char |-> line[j + 1], end |-> j + 2])
      ELSE None

\* None is the null of the source
parseCheckboxStatus(line) ==
  LET m == CheckboxMatch(line)
  IN  IF m = None THEN None
      ELSE LET checkChar == ToLowerChar(m[1].char)
           IN  Some(CASE checkChar = " " -> "open"
                      [] checkChar = "x" -> "done"
                      [] checkChar = "/" -> "in_progress"
                      [] checkChar = "-" -> "cancelled"
                      [] OTHER -> "open")

parseIndentation(line) == SpaceRunEnd(line, 1) - 1

\* removeEmojis's allEmojis
AllEmojis == PriorityEmojiList \o DateEmojiList \o <<RECURRENCE_EMOJI>>

\* result.replace(pattern, '') for one emoji, from offset pos on: every match
\* of whitespace, the emoji, and the characters up to the next emoji
\* character is dropped
RECURSIVE RemoveEmojiFrom(_, _, _)
RemoveEmojiFrom(s, emoji, pos) ==
  LET q == IndexOf(s, emoji, pos)
  IN  IF q = -1 THEN Substring(s, pos, Len(s))
      ELSE LET p == SpaceRunStart(s, q, pos)
               end == NotInRunEnd(s, q + Len(emoji) + 1, CharsOf(AllEmojis)) - 1
           IN  Substring(s, pos, p) \o RemoveEmojiFrom(s, emoji, end)

RECURSIVE RemoveEmojis(_, _)
RemoveEmojis(s, k) ==
  IF k > Len(AllEmojis) THEN s
  ELSE RemoveEmojis(RemoveEmojiFrom(s, AllEmojis[k], 0), k + 1)

removeEmojis(line) == Trim(RemoveEmojis(line, 1))

parseTaskText(line) ==
  LET m == CheckboxMatch(line)
      withoutCheckbox ==
        IF m = None THEN line
        ELSE SubSeq(line, SpaceRunEnd(line, m[1].end + 1), Len(line))
  IN  Trim(removeEmojis(withoutCheckbox))

parsePriority(line) ==
  LET found == SelectSeq(PriorityKeys,
                         LAMBDA k : IndexOf(line, PRIORITY_EMOJIS[k], 0) # -1)
  IN  IF found = <<>> THEN None ELSE Some(found[1])

\* four digits, '-', two digits, '-', two digits at 1-based index i
IsDateAt(s, i) ==
  /\ i + 9 <= Len(s)
  /\ \A k \in {0, 1, 2, 3, 5, 6, 8, 9} : s[i + k] \in Digit
  /\ s[i + 4] = "-"
  /\ s[i + 7] = "-"

\* line.match of the emoji, whitespace and a date: the date of the first match
DateMatch(line, emoji) ==
  LET hits == {q \in 0..(Len(line) - Len(emoji)) :
                 /\ OccursAt(line, emoji, q)
                 /\ IsDateAt(line, SpaceRunEnd(line, q + Len(emoji) + 1))}
  IN  IF hits = {} THEN None
      ELSE LET q == CHOOSE h \in hits : \A g \in hits : h <= g
               d == SpaceRunEnd(line, q + Len(emoji) + 1)
           IN  Some(SubSeq(line, d, d + 9))

parseDates(line) ==
  [due       |-> DateMatch(line, DATE_EMOJIS.due),
   scheduled |-> DateMatch(line, DATE_EMOJIS.scheduled),
   start     |-> DateMatch(line, DATE_EMOJIS.start),
   completed |-> DateMatch(line, DATE_EMOJIS.completed),
   created   |-> DateMatch(line, DATE_EMOJIS.created)]

\* the lookahead of the recurrence expression at 1-based index i: whitespace,
\* then a date emoji, a priority emoji or the end of the line
RecurrenceLookahead(line, i) ==
  LET r == SpaceRunEnd(line, i)
  IN  \/ r > Len(line)
      \/ \E k \in 1..Len(DateEmojiList) : OccursAt(line, DateEmojiList[k], r - 1)
      \/ \E k \in 1..Len(PriorityEmojiList) :
           OccursAt(line, PriorityEmojiList[k], r - 1)

\* the lazy group of the recurrence expression started at 1-based index c:
\* the shortest run of one or more characters outside the class that the
\* lookahead follows
RecurrenceCapture(line, c) ==
  LET limit == NotInRunEnd(line, c, CharsOf(DateEmojiList \o PriorityEmojiList))
      ends == {n \in (c + 1)..limit : RecurrenceLookahead(line, n)}
  IN  IF ends = {} THEN None
      ELSE Some(SubSeq(line, c, (CHOOSE n \in ends : \A g \in ends : n <= g) - 1))

\* the match of the recurrence expression at the emoji at offset q: the
\* greedy whitespace gives characters back until the group matches
RecurrenceMatchAt(line, q) ==
  LET after == q + Len(RECURRENCE_EMOJI) + 1
      starts == {c \in after..SpaceRunEnd(line, after) :
                   RecurrenceCapture(line, c) # None}
  IN  IF ~OccursAt(line, RECURRENCE_EMOJI, q) \/ starts = {} THEN None
      ELSE RecurrenceCapture(line, CHOOSE c \in starts : \A g \in starts : c >= g)

\* None, or Some of match[1].trim() of the first match
parseRecurrence(line) ==
  LET hits == {q \in 0..Len(line) : RecurrenceMatchAt(line, q) # None}
  IN  IF hits = {} THEN None
      ELSE Some(Trim(RecurrenceMatchAt(line,
                       CHOOSE h \in hits : \A g \in hits : h <= g)[1]))

IsTagChar(c) == IsWord(c) \/ c = "-"

RECURSIVE TagRunEnd(_, _)
TagRunEnd(s, i) ==
  IF i > Len(s) \/ ~IsTagChar(s[i]) THEN i ELSE TagRunEnd(s, i + 1)

\* line.match of the tag expression with flag g, from 1-based index i on,
\* each match without its '#'
RECURSIVE TagsFrom(_, _)
TagsFrom(line, i) ==
  IF i > Len(line) THEN <<>>
  ELSE IF line[i] = "#" /\ TagRunEnd(line, i + 1) > i + 1
  THEN <<SubSeq(line, i + 1, TagRunEnd(line, i + 1) - 1)>>
         \o TagsFrom(line, TagRunEnd(line, i + 1))
  ELSE TagsFrom(line, i + 1)

parseTags(line) == TagsFrom(line, 1)

isValidTask(line) == CheckboxMatch(line) # None

parseTaskLine(line, location) ==
  IF ~isValidTask(line) THEN Err("Not a valid task line")
  ELSE IF parseCheckboxStatus(line) = None
  THEN Err("Could not parse task status")
  ELSE Ok([text |-> parseTaskText(line),
           status |-> parseCheckboxStatus(line)[1],
           priority |-> parsePriority(line),
           dates |-> parseDates(line),
           recurrence |-> parseRecurrence(line),
           tags |-> parseTags(line),
           location |-> location,
           indent |-> parseIndentation(line)])

-----------------------------------------------------------------------------
(* utils/taskParser: parseTasksFromContent                                  *)

\* the 1-based index of the first character of s at or after i that is not #
RECURSIVE HashRunEnd(_, _)
HashRunEnd(s, i) ==
  IF i <= Len(s) /\ s[i] = "#" THEN HashRunEnd(s, i + 1) ELSE i

\* the match of /^#+\s+/ on line: None, or the 0-based offset where it ends
HeadingMatch(line) ==
  IF /\ HashRunEnd(line, 1) > 1
     /\ SpaceRunEnd(line, HashRunEnd(line, 1)) > HashRunEnd(line, 1)
  THEN Some(SpaceRunEnd(line, HashRunEnd(line, 1)) - 1)
  ELSE None

\* currentHeading after a line, with a heading line leaving a heading that is
\* already set alone
TrackHeadingKeepsFirst(currentHeading, line) ==
  IF HeadingMatch(line) # None /\ currentHeading = None
  THEN Some(Trim(Substring(line, HeadingMatch(line)[1], Len(line))))
  ELSE currentHeading

\* currentHeading after the heading tracking of one loop iteration
TrackHeading(currentHeading, line) ==
  IF HeadingMatch(line) # None
  THEN Some(Trim(Substring(line, HeadingMatch(line)[1], Len(line))))
  ELSE currentHeading

\* the tasks array after the task handling of iteration i (0-based)
PushTask(acc, line, filePath, i, currentHeading) ==
  IF isValidTask(line)
  THEN IF parseTaskLine(line, [file |-> filePath, line |-> i + 1,
                               heading |-> currentHeading]).ok
       THEN Append(acc, parseTaskLine(line, [file |-> filePath, line |-> i + 1,
                                             heading |-> currentHeading]).value)
       ELSE acc
  ELSE acc

\* the loop of parseTasksFromContent from iteration i (0-based) on
RECURSIVE ParseLoop(_, _, _, _, _)
ParseLoop(lines, filePath, i, currentHeading, acc) ==
  IF i >= Len(lines) THEN acc
  ELSE ParseLoop(lines, filePath, i + 1,
                 TrackHeading(currentHeading, lines[i + 1]),
                 PushTask(acc, lines[i + 1], filePath, i,
                          TrackHeading(currentHeading, lines[i + 1])))

\* parseTasksFromContent with the 0-based loop index as the line of a task
parseTasksFromContentZeroBased(c, filePath) ==
  Ok([k \in 1..Len(ParseLoop(Split(c, NL), filePath, 0, None, <<>>)) |->
        [ParseLoop(Split(c, NL), filePath, 0, None, <<>>)[k]
           EXCEPT !.location.line = @ - 1]])

parseTasksFromContent(c, filePath) ==
  Ok(ParseLoop(Split(c, NL), filePath, 0, None, <<>>))

-----------------------------------------------------------------------------
(* utils/taskUpdater: applyUpdates.  A field of a TaskUpdate is absent       *)
(* (undefined), null, or a value.                                           *)

Absent == [kind |-> "absent"]
Null == [kind |-> "null"]
Value(v) == [kind |-> "value", value |-> v]

NoUpdates ==
  [text |-> Absent, status |-> Absent, priority |-> Absent, due |-> Absent,
   scheduled |-> Absent, recurrence |-> Absent]

\* applyUpdates, except that a null recurrence is treated as an absent one
applyUpdatesIgnoresNull(t, u) ==
  LET withText == IF u.text.kind # "absent"
                  THEN [t EXCEPT !.text = u.text.value] ELSE t
      withStatus == IF u.status.kind # "absent"
                    THEN [withText EXCEPT !.status = u.status.value]
                    ELSE withText
      withPriority ==
        IF u.priority.kind # "absent"
        THEN [withStatus EXCEPT !.priority =
                IF u.priority.kind = "null" THEN None ELSE Some(u.priority.value)]
        ELSE withStatus
      withDue ==
        IF u.due.kind # "absent"
        THEN [withPriority EXCEPT !.dates.due =
                IF u.due.kind = "null" THEN None ELSE Some(u.due.value)]
        ELSE withPriority
      withScheduled ==
        IF u.scheduled.kind # "absent"
        THEN [withDue EXCEPT !.dates.scheduled =
                IF u.scheduled.kind = "null" THEN None ELSE Some(u.scheduled.value)]
        ELSE withDue
  IN  IF u.recurrence.kind = "value"
      THEN [withScheduled EXCEPT !.recurrence =
              IF u.recurrence.kind = "null" THEN None
              ELSE Some(u.recurrence.value)]
      ELSE withScheduled

applyUpdates(t, u) ==
  LET withText == IF u.text.kind # "absent"
                  THEN [t EXCEPT !.text = u.text.value] ELSE t
      withStatus == IF u.status.kind # "absent"
                    THEN [withText EXCEPT !.status = u.status.value]
                    ELSE withText
      withPriority ==
        IF u.priority.kind # "absent"
        THEN [withStatus EXCEPT !.priority =
                IF u.priority.kind = "null" THEN None ELSE Some(u.priority.value)]
        ELSE withStatus
      withDue ==
        IF u.due.kind # "absent"
        THEN [withPriority EXCEPT !.dates.due =
                IF u.due.kind = "null" THEN None ELSE Some(u.due.value)]
        ELSE withPriority
      withScheduled ==
        IF u.scheduled.kind # "absent"
        THEN [withDue EXCEPT !.dates.scheduled =
                IF u.scheduled.kind = "null" THEN None ELSE Some(u.scheduled.value)]
        ELSE withDue
  IN  IF u.recurrence.kind # "absent"
      THEN [withScheduled EXCEPT !.recurrence =
              IF u.recurrence.kind = "null" THEN None
              ELSE Some(u.recurrence.value)]
      ELSE withScheduled

-----------------------------------------------------------------------------
(* SpecRoundTrip: formatTask, then parseTaskLine on the line it returned    *)

TaskStatuses == {"open", "done", "in_progress", "cancelled"}

Priorities == {"highest", "high", "low", "lowest"}

\* a date per date field, so that a date read from the wrong emoji shows
DateOf ==
  [due       |-> <<"2","0","2","4","-","0","1","-","0","5">>,
   scheduled |-> <<"2","0","2","4","-","0","1","-","0","4">>,
   start     |-> <<"2","0","2","4","-","0","1","-","0","3">>,
   completed |-> <<"2","0","2","4","-","0","1","-","0","6">>,
   created   |-> <<"2","0","2","4","-","0","1","-","0","2">>]

\* the TaskDates with the dates of a set of fields present
DatesWith(present) ==
  [k \in DOMAIN DateOf |-> IF k \in present THEN Some(DateOf[k]) ELSE None]

\* no date, one date, or all five
DateSets == {present \in SUBSET (DOMAIN DateOf) : Cardinality(present) \in {0, 1, 5}}

TagNames == {<<"a">>, <<"b","-","1">>}

TagLists == UNION {[1..n -> TagNames] : n \in 0..MaxTags}

Recurrences == {<<"e","v","e","r","y"," ","d","a","y">>}

TaskFile == <<"t",".","m","d">>

Tasks ==
  [text : {<<"b","u","y">>},
   status : TaskStatuses,
   priority : {None} \cup {Some(p) : p \in Priorities},
   dates : {DatesWith(present) : present \in DateSets},
   recurrence : {None} \cup {Some(r) : r \in Recurrences},
   tags : TagLists,
   location : {[file |-> TaskFile, line |-> 1, heading |-> None]},
   indent : 0..MaxIndent]

NoTask ==
  [text |-> <<>>, status |-> "open", priority |-> None, dates |-> NoDates,
   recurrence |-> None, tags |-> <<>>,
   location |-> [file |-> <<>>, line |-> 0, heading |-> None], indent |-> 0]

RtInit ==
  /\ task \in Tasks
  /\ taskLine = <<>>
  /\ parsedTask = NoResult
  /\ rewrittenLine = <<>>
  /\ updates = NoUpdates
  /\ updatedTask = NoTask
  /\ taskPc = "input"

\* formatTask(task)
FormatTask ==
  /\ taskPc = "input"
  /\ taskLine' = formatTask(task)
  /\ taskPc' = "formatted"
  /\ UNCHANGED <<task, parsedTask, rewrittenLine, updates, updatedTask, nonTaskVars>>

\* parseTaskLine(line, location)
ParseTaskLine ==
  /\ taskPc = "formatted"
  /\ parsedTask' = parseTaskLine(taskLine, task.location)
  /\ taskPc' = "parsed"
  /\ UNCHANGED <<task, taskLine, rewrittenLine, updates, updatedTask, nonTaskVars>>

\* formatTask on the task parseTaskLine returned: the line a task-writing
\* operation writes back when it changes nothing
FormatParsed ==
  /\ taskPc = "parsed"
  /\ parsedTask.ok
  /\ rewrittenLine' = formatTask(parsedTask.value)
  /\ taskPc' = "rewritten"
  /\ UNCHANGED <<task, taskLine, parsedTask, updates, updatedTask, nonTaskVars>>

-----------------------------------------------------------------------------
(* SpecApply: applyUpdates on bounded tasks and patches                     *)

UpdateTasks ==
  [text : {<<"b","u","y">>},
   status : {"open"},
   priority : {None, Some("high")},
   dates : {DatesWith(present) : present \in DateSets},
   recurrence : {None} \cup {Some(r) : r \in Recurrences},
   tags : {<<>>, <<<<"a">>>>},
   location : {[file |-> TaskFile, line |-> 1, heading |-> None]},
   indent : {0, 1}]

\* the TaskUpdates of the type: text and status absent or a value, the other
\* fields absent, null or a value
TaskUpdates ==
  [text : {Absent, Value(<<"p","a","y">>)},
   status : {Absent, Value("done")},
   priority : {Absent, Null, Value("low")},
   due : {Absent, Null, Value(<<"2","0","2","4","-","0","2","-","0","1">>)},
   scheduled : {Absent, Null, Value(<<"2","0","2","4","-","0","2","-","0","2">>)},
   recurrence : {Absent, Null, Value(<<"w","e","e","k","l","y">>)}]

ApplyInit ==
  /\ task \in UpdateTasks
  /\ updates \in TaskUpdates
  /\ taskLine = <<>>
  /\ parsedTask = NoResult
  /\ rewrittenLine = <<>>
  /\ updatedTask = NoTask
  /\ taskPc = "input"

\* applyUpdates(task, updates); the copy it returns shares the dates object
\* with task, so the dates of task change with it
ApplyUpdates ==
  /\ taskPc = "input"
  /\ updatedTask' = applyUpdates(task, updates)
  /\ task' = [task EXCEPT !.dates = updatedTask'.dates]
  /\ taskPc' = "updated"
  /\ UNCHANGED <<taskLine, parsedTask, rewrittenLine, updates, nonTaskVars>>

-----------------------------------------------------------------------------
(* utils/taskUpdater: updateTaskInContent.  A call ends by returning a      *)
(* value or by throwing an Error.                                           *)

Returned(v) == [kind |-> "return", value |-> v]
Thrown(e) == [kind |-> "throw", error |-> e]
NoOutcome == [kind |-> "none"]

\* updateTaskInContent with lines[lineNumber] assigned instead of
\* lines[lineNumber - 1]
updateTaskInContentZeroBased(c, n, l) ==
  LET lines == Split(c, NL)
  IN  IF n < 1 \/ n > Len(lines)
      THEN Thrown("Invalid line number")
      ELSE Returned(Join([k \in 1..Len(lines) |->
                            IF k = n + 1 THEN l ELSE lines[k]], <<NL>>))

updateTaskInContent(c, n, l) ==
  LET lines == Split(c, NL)
  IN  IF n < 1 \/ n > Len(lines)
      THEN Thrown("Invalid line number")
      ELSE Returned(Join([k \in 1..Len(lines) |->
                            IF k = n THEN l ELSE lines[k]], <<NL>>))

-----------------------------------------------------------------------------
(* SpecLine: updateTaskInContent on bounded documents                       *)

DocLines ==
  {<<>>, <<"x">>, <<"-"," ","[", " ", "]", " ", "a">>}

NewLines ==
  {<<>>, <<"-"," ","[", "x", "]", " ", "a">>}

\* the documents of 1..MaxLines lines
LineDocs ==
  {Join(ls, <<NL>>) :
     ls \in UNION {[1..n -> DocLines] : n \in 1..MaxLines}}

LineInit ==
  /\ docContent \in LineDocs
  /\ lineNumber \in (-1)..(MaxLines + 2)
  /\ newTaskLine \in NewLines
  /\ outcome = NoOutcome
  /\ linePc = "input"

UpdateTaskInContent ==
  /\ linePc = "input"
  /\ outcome' = updateTaskInContent(docContent, lineNumber, newTaskLine)
  /\ linePc' = "called"
  /\ UNCHANGED <<docContent, lineNumber, newTaskLine, nonLineVars>>

-----------------------------------------------------------------------------
(* utils/taskMatcher: the matchers, matchesFilter and filterTasks.  A       *)
(* criterion of a TaskFilter is None when it is undefined.                  *)

\* the characters of a date in the order of their character codes
DateChars == <<"-","0","1","2","3","4","5","6","7","8","9">>

CharCode(c) == CHOOSE k \in 1..Len(DateChars) : DateChars[k] = c

\* a <= b of two strings
RECURSIVE StrLeq(_, _)
StrLeq(a, b) ==
  IF a = <<>> THEN TRUE
  ELSE IF b = <<>> THEN FALSE
  ELSE IF a[1] # b[1] THEN CharCode(a[1]) < CharCode(b[1])
  ELSE StrLeq(Tail(a), Tail(b))

\* s.includes(p)
Includes(s, p) == \E i \in 0..Len(s) : OccursAt(s, p, i)

matchesStatus(t, filterValue) ==
  IF filterValue = None THEN TRUE ELSE t.status = filterValue[1]

matchesPriority(t, filterValue) ==
  IF filterValue = None THEN TRUE
  ELSE IF t.priority = None THEN FALSE
  ELSE t.priority[1] = filterValue[1]

matchesPath(t, filterValue) ==
  IF filterValue = None THEN TRUE
  ELSE Includes(t.location.file, filterValue[1])

\* matchesDueBefore with taskDate < dateValue
matchesDueBeforeStrict(t, dateValue) ==
  IF dateValue = None \/ dateValue = Some(<<>>) THEN TRUE
  ELSE IF t.dates.due = None THEN FALSE
  ELSE StrLeq(t.dates.due[1], dateValue[1]) /\ t.dates.due[1] # dateValue[1]

matchesDueBefore(t, dateValue) ==
  IF dateValue = None \/ dateValue = Some(<<>>) THEN TRUE
  ELSE IF t.dates.due = None THEN FALSE
  ELSE StrLeq(t.dates.due[1], dateValue[1])

matchesDueAfter(t, dateValue) ==
  IF dateValue = None \/ dateValue = Some(<<>>) THEN TRUE
  ELSE IF t.dates.due = None THEN FALSE
  ELSE StrLeq(dateValue[1], t.dates.due[1])

matchesRecurring(t, filterValue) ==
  IF filterValue = None THEN TRUE
  ELSE (t.recurrence # None) = filterValue[1]

matchesTags(t, filterValue) ==
  IF filterValue = None THEN TRUE
  ELSE IF Len(filterValue[1]) = 0 THEN TRUE
  ELSE \A k \in 1..Len(filterValue[1]) :
         \E j \in 1..Len(t.tags) : t.tags[j] = filterValue[1][k]

matchesFilter(t, f) ==
  /\ matchesStatus(t, f.status)
  /\ matchesPriority(t, f.priority)
  /\ matchesPath(t, f.path)
  /\ matchesDueBefore(t, f.due_before)
  /\ matchesDueAfter(t, f.due_after)
  /\ matchesRecurring(t, f.is_recurring)
  /\ matchesTags(t, f.tags)

Matching(ts, f) == SelectSeq(ts, LAMBDA t : matchesFilter(t, f))

\* filterTasks with the slice applied whenever a limit is given
filterTasksAnyLimit(ts, f) ==
  IF f.limit # None
  THEN SubSeq(Matching(ts, f), 1, Min(f.limit[1], Len(Matching(ts, f))))
  ELSE Matching(ts, f)

filterTasks(ts, f) ==
  IF f.limit # None /\ f.limit[1] # 0 /\ f.limit[1] > 0
  THEN SubSeq(Matching(ts, f), 1, Min(f.limit[1], Len(Matching(ts, f))))
  ELSE Matching(ts, f)

-----------------------------------------------------------------------------
(* SpecFilter: filterTasks on bounded task lists and filters                *)

Jan(d) == <<"2","0","2","4","-","0","1","-","0",d>>

NestedFile == <<"n","/","t",".","m","d">>

\* three tasks that differ in every filtered field
TaskPool ==
  {[NoTask EXCEPT !.text = <<"a">>, !.status = "open", !.priority = Some("high"),
                  !.dates.due = Some(Jan("1")), !.recurrence = Some(<<"d">>),
                  !.tags = <<<<"a">>, <<"b">>>>,
                  !.location.file = NestedFile],
   [NoTask EXCEPT !.text = <<"b">>, !.status = "done",
                  !.dates.due = Some(Jan("3")), !.tags = <<<<"a">>>>,
                  !.location.file = TaskFile],
   [NoTask EXCEPT !.text = <<"c">>, !.status = "done", !.priority = Some("low"),
                  !.location.file = NestedFile]}

TaskListsOf(pool) == UNION {[1..n -> pool] : n \in 0..MaxTasks}

NoFilter ==
  [status |-> None, priority |-> None, path |-> None, due_before |-> None,
   due_after |-> None, is_recurring |-> None, tags |-> None, limit |-> None]

TaskFilters ==
  [status : {None, Some("done")},
   priority : {None, Some("high")},
   path : {None, Some(<<"n","/">>)},
   due_before : {None, Some(Jan("1"))},
   due_after : {None, Some(Jan("3"))},
   is_recurring : {None, Some(TRUE), Some(FALSE)},
   tags : {None, Some(<<<<"a">>>>), Some(<<<<"b">>, <<"a">>>>)},
   limit : {None, Some(-1), Some(0), Some(1), Some(2)}]

FilterInit ==
  /\ tasks \in TaskListsOf(TaskPool)
  /\ filter \in TaskFilters
  /\ filtered = <<>>
  /\ filterPc = "input"

FilterTasks ==
  /\ filterPc = "input"
  /\ filtered' = filterTasks(tasks, filter)
  /\ filterPc' = "filtered"
  /\ UNCHANGED <<tasks, filter, nonFilterVars>>

-----------------------------------------------------------------------------
(* SpecParseDoc: parseTasksFromContent on bounded documents                 *)

\* heading lines, task lines, and lines that are neither
ParseLines ==
  {<<"#"," ","H">>, <<"#","#"," "," ","G"," ">>,
   <<"-"," ","[", " ", "]", " ", "a">>, <<" ","-","[", "?", "]">>,
   <<"#","t">>, <<"-"," ","[", "]">>, <<>>}

ParseDocs ==
  {Join(ls, <<NL>>) :
     ls \in UNION {[1..n -> ParseLines] : n \in 1..MaxLines}}

ParseDocInit ==
  /\ fileContent \in ParseDocs
  /\ fileTasks = NoResult
  /\ docPc = "input"

ParseTasksFromContent ==
  /\ docPc = "input"
  /\ fileTasks' = parseTasksFromContent(fileContent, TaskFile)
  /\ docPc' = "parsed"
  /\ UNCHANGED <<fileContent, nonDocVars>>

-----------------------------------------------------------------------------
(* server: createFileValidator, loadPromptResources and the file watchers   *)

\* settings.promptFolders and settings.promptTags
PromptFolders == <<<<"p">>>>
PromptTags == <<<<"t">>>>

\* s.replace(/\.md$/, '')
StripMd(s) ==
  IF Len(s) >= 3 /\ SubSeq(s, Len(s) - 2, Len(s)) = MdSuffix
  THEN SubSeq(s, 1, Len(s) - 3)
  ELSE s

\* s.replace(/\s+/g, '-')
RECURSIVE DashSpaces(_)
DashSpaces(s) ==
  IF s = <<>> THEN <<>>
  ELSE IF IsSpace(s[1])
  THEN <<"-">> \o DashSpaces(SubSeq(s, SpaceRunEnd(s, 1), Len(s)))
  ELSE <<s[1]>> \o DashSpaces(Tail(s))

generatePromptName(path) == DashSpaces(ToLowerCase(StripMd(path)))

\* tag.startsWith('#') ? tag : `#${tag}`
HashTag(tag) == IF tag # <<>> /\ tag[1] = "#" THEN tag ELSE <<"#">> \o tag

\* the tags the metadata cache holds for a file are the tags of the file
isPromptFile(file) ==
  \/ \E k \in 1..Len(PromptFolders) :
       \/ OccursAt(file.path, PromptFolders[k] \o <<"/">>, 0)
       \/ file.path = PromptFolders[k]
  \/ \E k \in 1..Len(PromptTags) : HashTag(PromptTags[k]) \in file.tags

\* the registries loadPromptResources can leave for the files fs: one entry
\* per name of a prompt file; of the prompt files with one name the file
\* that getMarkdownFiles lists last is kept
loadPromptResources(fs) ==
  LET prompts == {f \in fs : isPromptFile(f)}
      names == {generatePromptName(f.basename) : f \in prompts}
  IN  {r \in [names -> {f.path : f \in prompts}] :
         \A n \in names :
           \E f \in prompts : f.path = r[n] /\ generatePromptName(f.basename) = n}

\* promptResources.has(name)
HasPrompt(name) == name \in DOMAIN promptResources

wasPromptFile(path) == HasPrompt(generatePromptName(path))

-----------------------------------------------------------------------------
(* SpecWatch: vault events on markdown files and their handlers             *)

Folders == {<<>>, <<"p","/">>}
Basenames == {<<"a">>, <<"B"," ","c">>}
TagSets == {{}, {<<"#","t">>}}

\* the TFiles a vault can hold
AllFiles ==
  {[path |-> d \o b \o MdSuffix, basename |-> b, tags |-> ts] :
     d \in Folders, b \in Basenames, ts \in TagSets}

Paths(fs) == {f.path : f \in fs}

\* the vaults: at most one file per path
WatchedVaults == {fs \in SUBSET AllFiles : \A f, g \in fs : f.path = g.path => f = g}

\* the constructor: loadPromptResources on the vault as it is, a vault of at
\* most MaxInitialFiles files
MaxPendingReloads == 2

\* registerDynamicPrompts up to its await: the list is cleared and the
\* variables of every resource of the registry are requested; with an empty
\* registry nothing is awaited on
PendingAfter(pending, registry) ==
  IF DOMAIN registry = {} THEN pending ELSE pending \cup {registry}

\* registerDynamicPrompts after its await: every resource of the registry it
\* started from is put on the list
FillPrompts(prompts, registry) ==
  [n \in DOMAIN prompts \cup DOMAIN registry |->
     IF n \in DOMAIN registry THEN registry[n] ELSE prompts[n]]

\* the vault prompts listPrompts returns
listPrompts ==
  {[name |-> n, description |-> vaultPrompts[n]] : n \in DOMAIN vaultPrompts}

WatchInit ==
  /\ vaultFiles \in {fs \in WatchedVaults : Cardinality(fs) <= MaxInitialFiles}
  /\ promptResources \in loadPromptResources(vaultFiles)
  /\ vaultPrompts = <<>>
  /\ pendingReloads = PendingAfter({}, promptResources)

\* loadPromptResources and the registerDynamicPrompts it starts, or nothing,
\* as the handler decided
ReloadIf(cond) ==
  IF cond
  THEN /\ promptResources' \in loadPromptResources(vaultFiles')
       /\ vaultPrompts' = <<>>
       /\ pendingReloads' = PendingAfter(pendingReloads, promptResources')
       /\ Cardinality(pendingReloads') <= MaxPendingReloads
  ELSE UNCHANGED <<promptResources, vaultPrompts, pendingReloads>>

\* a registerDynamicPrompts resumes after its Promise.all
FinishReload(registry) ==
  /\ registry \in pendingReloads
  /\ vaultPrompts' = FillPrompts(vaultPrompts, registry)
  /\ pendingReloads' = pendingReloads \ {registry}
  /\ UNCHANGED <<vaultFiles, promptResources, nonWatchVars>>

OnCreate(file) ==
  /\ file.path \notin Paths(vaultFiles)
  /\ vaultFiles' = vaultFiles \cup {file}
  /\ ReloadIf(isPromptFile(file))
  /\ UNCHANGED nonWatchVars

OnDelete(file) ==
  /\ file \in vaultFiles
  /\ vaultFiles' = vaultFiles \ {file}
  /\ ReloadIf(HasPrompt(DashSpaces(ToLowerCase(StripMd(file.basename)))))
  /\ UNCHANGED nonWatchVars

\* the file was written and its tags are now ts
OnModify(file, ts) ==
  /\ file \in vaultFiles
  /\ vaultFiles' = (vaultFiles \ {file}) \cup {[file EXCEPT !.tags = ts]}
  /\ ReloadIf(isPromptFile([file EXCEPT !.tags = ts]))
  /\ UNCHANGED nonWatchVars

\* the file moved from its path to the path of renamed
OnRename(file, renamed) ==
  /\ file \in vaultFiles
  /\ renamed.path \notin Paths(vaultFiles)
  /\ renamed.tags = file.tags
  /\ vaultFiles' = (vaultFiles \ {file}) \cup {renamed}
  /\ ReloadIf(wasPromptFile(file.path) \/ isPromptFile(renamed))
  /\ UNCHANGED nonWatchVars

-----------------------------------------------------------------------------
(* utils/taskMatcher: getMatchContext                                       *)

Max(a, b) == IF a > b THEN a ELSE b

NoMatchContext == [matched_text |-> <<>>, context |-> <<>>]

getMatchContext(text, q, len) ==
  LET matchIndex == IndexOf(ToLowerCase(text), ToLowerCase(q), 0)
  IN  IF matchIndex = -1
      THEN [matched_text |-> <<>>, context |-> text]
      ELSE [matched_text |-> Substring(text, matchIndex, matchIndex + Len(q)),
            context |-> Substring(text, Max(0, matchIndex - len),
                                  Min(Len(text), matchIndex + Len(q) + len))]

-----------------------------------------------------------------------------
(* SpecContext: getMatchContext on bounded texts and queries                *)

ContextChars == {"a", "A", "b"}

StringsUpTo(n) == UNION {[1..k -> ContextChars] : k \in 0..n}

ContextInit ==
  /\ searchText \in StringsUpTo(MaxText)
  /\ searchQuery \in StringsUpTo(MaxQuery)
  /\ contextLength \in 0..MaxContext
  /\ matchContext = NoMatchContext
  /\ ctxPc = "input"

GetMatchContext ==
  /\ ctxPc = "input"
  /\ matchContext' = getMatchContext(searchText, searchQuery, contextLength)
  /\ ctxPc' = "called"
  /\ UNCHANGED <<searchText, searchQuery, contextLength, nonCtxVars>>

-----------------------------------------------------------------------------
(* utils/taskHelpers: insertTaskIntoContent                                 *)

\* lines.findIndex(line => line.includes(h)): the 0-based index, or -1
FindHeadingIndex(lines, h) ==
  IF {k \in 1..Len(lines) : Includes(lines[k], h)} = {} THEN -1
  ELSE (CHOOSE k \in 1..Len(lines) :
          /\ Includes(lines[k], h)
          /\ \A m \in 1..(k - 1) : ~Includes(lines[m], h)) - 1

\* lines.splice(at, 0, l) with a 0-based at
InsertAt(lines, at, l) ==
  SubSeq(lines, 1, at) \o <<l>> \o SubSeq(lines, at + 1, Len(lines))

insertTaskIntoContent(c, l, pos, h) ==
  IF pos = None \/ pos = Some("append")
  THEN Ok([content |-> IF c # <<>> THEN c \o <<NL>> \o l ELSE l,
           lineNumber |-> Len(Split(IF c # <<>> THEN c \o <<NL>> \o l ELSE l, NL))])
  ELSE IF pos = Some("prepend")
  THEN Ok([content |-> l \o (IF c # <<>> THEN <<NL>> \o c ELSE <<>>),
           lineNumber |-> 1])
  ELSE IF pos = Some("after_heading") /\ h # None /\ h # Some(<<>>)
  THEN IF FindHeadingIndex(Split(c, NL), h[1]) = -1
       THEN Err("Heading not found")
       ELSE Ok([content |->
                  Join(InsertAt(Split(c, NL),
                                FindHeadingIndex(Split(c, NL), h[1]) + 1, l),
                       <<NL>>),
                lineNumber |-> FindHeadingIndex(Split(c, NL), h[1]) + 2])
  ELSE Ok([content |-> c, lineNumber |-> 1])

-----------------------------------------------------------------------------
(* SpecInsert: insertTaskIntoContent on bounded documents                   *)

InsertLines == {<<>>, <<"x">>, <<"#"," ","H">>}

InsertDocs ==
  {Join(ls, <<NL>>) :
     ls \in UNION {[1..n -> InsertLines] : n \in 1..MaxLines}}

Positions == {None, Some("append"), Some("prepend"), Some("after_heading")}

Headings == {None, Some(<<>>), Some(<<"H">>), Some(<<"Z">>)}

InsertInit ==
  /\ insertContent \in InsertDocs
  /\ insertLine = <<"-"," ","[", " ", "]", " ", "a">>
  /\ insertPosition \in Positions
  /\ insertHeading \in Headings
  /\ inserted = NoResult
  /\ insertPc = "input"

InsertTaskIntoContent ==
  /\ insertPc = "input"
  /\ inserted' = insertTaskIntoContent(insertContent, insertLine,
                                       insertPosition, insertHeading)
  /\ insertPc' = "called"
  /\ UNCHANGED <<insertContent, insertLine, insertPosition, insertHeading,
                 nonInsertVars>>

-----------------------------------------------------------------------------
(* server: createTask, updateTask, completeTask as steps on one file        *)

findTaskAtLine(ts, n) ==
  IF \E k \in 1..Len(ts) : ts[k].location.line = n
  THEN Ok(ts[CHOOSE k \in 1..Len(ts) :
               /\ ts[k].location.line = n
               /\ \A m \in 1..(k - 1) : ts[m].location.line # n])
  ELSE Err("No task found at line")

\* the promise of an operation rejected instead of resolving with a Result
Rejected == [ok |-> FALSE, error |-> "rejected"]

\* createTaskLine(text, {}) of the task the create-task operations add
CreatedLine == formatTask([NoTask EXCEPT !.text = <<"c">>])

\* the task line update-task writes for the found task
UpdatedLine(t, u) == formatTask(applyUpdates(t, u))

\* the task line complete-task writes for the found task
CompletedLine(t, completionDate) ==
  formatTask([t EXCEPT !.status = "done",
                       !.dates.completed = Some(completionDate)])

Writers == {"A", "B"}

\* the updates of the update-task operations: {"priority": "high"}
PriorityUpdate == [NoUpdates EXCEPT !.priority = Value("high")]

CompletionDate == Jan("1")

WriteOps ==
  [kind : {"create"}, position : {None, Some("prepend")}, line : {0}]
    \cup [kind : {"update", "complete"}, position : {None}, line : {1, 2}]

\* the file before the operations: two open tasks
InitialLines == <<formatTask([NoTask EXCEPT !.text = <<"a">>]),
                  formatTask([NoTask EXCEPT !.text = <<"b">>])>>

WriteInit ==
  /\ taskFile = Join(InitialLines, <<NL>>)
  /\ writeOp \in [Writers -> WriteOps]
  /\ writePc = [w \in Writers |-> "start"]
  /\ readContent = [w \in Writers |-> <<>>]
  /\ newContent = [w \in Writers |-> <<>>]
  /\ written = [w \in Writers |-> NoResult]

\* createTask after its read resolved with c: insertTaskIntoContent, then
\* modifyFileByTFile is called with the new content
CreateAfterRead(w, c, ins) ==
  /\ readContent' = [readContent EXCEPT ![w] = c]
  /\ IF ins.ok
     THEN /\ newContent' = [newContent EXCEPT ![w] = ins.value.content]
          /\ written' = [written EXCEPT ![w] = Ok(ins.value.lineNumber)]
          /\ writePc' = [writePc EXCEPT ![w] = "modify"]
     ELSE /\ written' = [written EXCEPT ![w] = ins]
          /\ writePc' = [writePc EXCEPT ![w] = "done"]
          /\ UNCHANGED newContent

\* readFileByTFile of operation w resolves with the current content
ReadFile(w) ==
  /\ writePc[w] = "start"
  /\ IF writeOp[w].kind = "create"
     THEN CreateAfterRead(w, taskFile,
            insertTaskIntoContent(taskFile, CreatedLine,
                                  writeOp[w].position, None))
     ELSE /\ readContent' = [readContent EXCEPT ![w] = taskFile]
          /\ writePc' = [writePc EXCEPT ![w] = "listing"]
          /\ UNCHANGED <<newContent, written>>
  /\ UNCHANGED <<taskFile, writeOp, nonWriteVars>>

\* updateTask and completeTask after findTaskAtLine: the new line replaces
\* line n of the content of the first read
RewriteFound(w, found, replaced) ==
  IF ~found.ok
  THEN /\ written' = [written EXCEPT ![w] = found]
       /\ writePc' = [writePc EXCEPT ![w] = "done"]
       /\ UNCHANGED newContent
  ELSE IF replaced.kind = "throw"
  THEN /\ written' = [written EXCEPT ![w] = Rejected]
       /\ writePc' = [writePc EXCEPT ![w] = "done"]
       /\ UNCHANGED newContent
  ELSE /\ newContent' = [newContent EXCEPT ![w] = replaced.value]
       /\ written' = [written EXCEPT ![w] = Ok(writeOp[w].line)]
       /\ writePc' = [writePc EXCEPT ![w] = "modify"]

NewLineFor(op, t) ==
  IF op.kind = "update" THEN UpdatedLine(t, PriorityUpdate)
  ELSE CompletedLine(t, CompletionDate)

\* readTasksFromFile of operation w resolves with the tasks of the current
\* content
ReadTasks(w) ==
  /\ writePc[w] = "listing"
  /\ RewriteFound(w,
       findTaskAtLine(parseTasksFromContent(taskFile, TaskFile).value,
                      writeOp[w].line),
       IF findTaskAtLine(parseTasksFromContent(taskFile, TaskFile).value,
                         writeOp[w].line).ok
       THEN updateTaskInContent(readContent[w], writeOp[w].line,
              NewLineFor(writeOp[w],
                findTaskAtLine(parseTasksFromContent(taskFile, TaskFile).value,
                               writeOp[w].line).value))
       ELSE NoOutcome)
  /\ UNCHANGED <<taskFile, writeOp, readContent, nonWriteVars>>

\* modifyFileByTFile of operation w replaces the content of the file
ModifyFile(w) ==
  /\ writePc[w] = "modify"
  /\ taskFile' = newContent[w]
  /\ writePc' = [writePc EXCEPT ![w] = "done"]
  /\ UNCHANGED <<writeOp, readContent, newContent, written, nonWriteVars>>

-----------------------------------------------------------------------------
(* main: MCPPlugin.startServer, stopServer, restartServer                   *)
(* A call runs until it awaits transport.stop() or transport.start(); the   *)
(* transport created by call c is named c.                                  *)

MaxCalls == 3

Calls == 1..MaxCalls

IdleCall == [pc |-> "idle", then |-> "done", target |-> 0]

\* the fields of the plugin and the transports, as one record
Plugin ==
  [transport |-> transport, server |-> server, transports |-> transports,
   calls |-> calls]

\* the call returns
Return(p, c) == [p EXCEPT !.calls[c].pc = "done"]

\* await this.transport.stop() inside stopServer; next names what the
\* caller of stopServer does afterwards
AwaitStop(p, c, next) ==
  [p EXCEPT !.calls[c] = [pc |-> "stopping", then |-> next,
                          target |-> p.transport[1]]]

\* startServer from the two `new` on: the fields are assigned and
\* transport.start(server) is awaited
CreateTransport(p, c) ==
  [p EXCEPT !.server = Some(c), !.transport = Some(c),
            !.transports[c] = "created",
            !.calls[c] = [pc |-> "starting", then |-> "done", target |-> c]]

startServer(p, c) ==
  IF p.transport # None THEN AwaitStop(p, c, "create")
  ELSE CreateTransport(p, c)

stopServer(p, c) ==
  IF p.transport # None THEN AwaitStop(p, c, "done") ELSE Return(p, c)

\* restartServer after its stopServer returned
AfterRestartStop(p, c, enabled) ==
  IF enabled THEN startServer(p, c) ELSE Return(p, c)

restartServer(p, c, enabled) ==
  IF p.transport # None THEN AwaitStop(p, c, "restart")
  ELSE AfterRestartStop(p, c, enabled)

isServerRunning == transport # None

\* what follows the stopServer of call c
AfterStop(p, c, enabled) ==
  IF p.calls[c].then = "create" THEN CreateTransport(p, c)
  ELSE IF p.calls[c].then = "restart" THEN AfterRestartStop(p, c, enabled)
  ELSE Return(p, c)

\* stopServer after transport.stop() resolved
Stopped(p, c) ==
  [p EXCEPT !.transports[p.calls[c].target] = "stopped",
            !.transport = None, !.server = None]

\* transport.start() resolved: the transport listens, unless it was
\* stopped in the meantime
StartSucceeded(p, c) ==
  [p EXCEPT !.transports[c] = IF @ = "created" THEN "started" ELSE @]

\* the catch of startServer after transport.start() rejected
StartFailed(p, c) ==
  [p EXCEPT !.transports[c] = IF @ = "created" THEN "failed" ELSE @,
            !.transport = None, !.server = None]

Becomes(p) ==
  /\ transport' = p.transport
  /\ server' = p.server
  /\ transports' = p.transports
  /\ calls' = p.calls
  /\ UNCHANGED <<serverEnabled, nonPluginVars>>

PluginInit ==
  /\ transport = None
  /\ server = None
  /\ transports = [c \in Calls |-> "none"]
  /\ calls = [c \in Calls |-> IdleCall]
  /\ serverEnabled \in BOOLEAN

StartServer(c) ==
  /\ calls[c].pc = "idle"
  /\ Becomes(startServer(Plugin, c))

StopServer(c) ==
  /\ calls[c].pc = "idle"
  /\ Becomes(stopServer(Plugin, c))

RestartServer(c) ==
  /\ calls[c].pc = "idle"
  /\ Becomes(restartServer(Plugin, c, serverEnabled))

StopResolves(c) ==
  /\ calls[c].pc = "stopping"
  /\ Becomes(AfterStop(Stopped(Plugin, c), c, serverEnabled))

\* the catch of stopServer only logs
StopRejects(c) ==
  /\ calls[c].pc = "stopping"
  /\ Becomes(AfterStop(Plugin, c, serverEnabled))

StartResolves(c) ==
  /\ calls[c].pc = "starting"
  /\ Becomes(Return(StartSucceeded(Plugin, c), c))

StartRejects(c) ==
  /\ calls[c].pc = "starting"
  /\ Becomes(Return(StartFailed(Plugin, c), c))

-----------------------------------------------------------------------------
(* The specifications; each leaves the state of the others untouched        *)

SegOff ==
  /\ content = <<>>
  /\ allSegments = <<>>
  /\ mergedSegments = <<>>
  /\ completeSegments = <<>>
  /\ segPc = "off"

CompileOff ==
  /\ files = {}
  /\ rootContent = <<>>
  /\ cpc = "off"
  /\ args = <<>>
  /\ segments = <<>>
  /\ context = EmptyContext
  /\ status = <<>>
  /\ out = <<>>
  /\ pendingFile = <<>>
  /\ reads = <<>>
  /\ settled = <<>>
  /\ result = NoResult

MsgOff ==
  /\ processed = <<>>
  /\ messages = <<>>
  /\ msgPc = "off"

TaskOff ==
  /\ task = NoTask
  /\ taskLine = <<>>
  /\ parsedTask = NoResult
  /\ rewrittenLine = <<>>
  /\ updates = NoUpdates
  /\ updatedTask = NoTask
  /\ taskPc = "off"

SegNext == ParseSegments

LineOff ==
  /\ docContent = <<>>
  /\ lineNumber = 0
  /\ newTaskLine = <<>>
  /\ outcome = NoOutcome
  /\ linePc = "off"

FilterOff ==
  /\ tasks = <<>>
  /\ filter = NoFilter
  /\ filtered = <<>>
  /\ filterPc = "off"

DocOff ==
  /\ fileContent = <<>>
  /\ fileTasks = NoResult
  /\ docPc = "off"

WatchOff ==
  /\ vaultFiles = {}
  /\ promptResources = <<>>
  /\ vaultPrompts = <<>>
  /\ pendingReloads = {}

CtxOff ==
  /\ searchText = <<>>
  /\ searchQuery = <<>>
  /\ contextLength = 0
  /\ matchContext = NoMatchContext
  /\ ctxPc = "off"

InsertOff ==
  /\ insertContent = <<>>
  /\ insertLine = <<>>
  /\ insertPosition = None
  /\ insertHeading = None
  /\ inserted = NoResult
  /\ insertPc = "off"

WriteOff ==
  /\ taskFile = <<>>
  /\ writeOp = <<>>
  /\ writePc = <<>>
  /\ readContent = <<>>
  /\ newContent = <<>>
  /\ written = <<>>

PluginOff ==
  /\ transport = None
  /\ server = None
  /\ transports = <<>>
  /\ calls = <<>>
  /\ serverEnabled = FALSE

InitSeg == SegInit /\ CompileOff /\ MsgOff /\ TaskOff /\ LineOff /\ FilterOff /\ DocOff /\ WatchOff /\ CtxOff /\ InsertOff /\ WriteOff /\ PluginOff

SpecSeg == InitSeg /\ [][SegNext]_vars

InitOverlap == OverlapInit /\ CompileOff /\ MsgOff /\ TaskOff /\ LineOff /\ FilterOff /\ DocOff /\ WatchOff /\ CtxOff /\ InsertOff /\ WriteOff /\ PluginOff

SpecOverlap == InitOverlap /\ [][SegNext]_vars

CompileNext ==
  \/ \E a \in ArgSets : ProcessPrompt(a)
  \/ RootReadFails
  \/ RootReadOk
  \/ \E i \in 1..Len(segments), ok \in BOOLEAN : ReadCompletes(i, ok)
  \/ Finish

Init == CompileInit /\ SegOff /\ MsgOff /\ TaskOff /\ LineOff /\ FilterOff /\ DocOff /\ WatchOff /\ CtxOff /\ InsertOff /\ WriteOff /\ PluginOff

SpecCompile == Init /\ [][CompileNext]_vars

MsgNext == ToPromptMessages

InitMsg == MsgInit /\ SegOff /\ CompileOff /\ TaskOff /\ LineOff /\ FilterOff /\ DocOff /\ WatchOff /\ CtxOff /\ InsertOff /\ WriteOff /\ PluginOff

InitRoundTrip == RtInit /\ SegOff /\ CompileOff /\ MsgOff /\ LineOff /\ FilterOff /\ DocOff /\ WatchOff /\ CtxOff /\ InsertOff /\ WriteOff /\ PluginOff

RtNext == FormatTask \/ ParseTaskLine \/ FormatParsed

SpecRoundTrip == InitRoundTrip /\ [][RtNext]_vars

InitApply == ApplyInit /\ SegOff /\ CompileOff /\ MsgOff /\ LineOff /\ FilterOff /\ DocOff /\ WatchOff /\ CtxOff /\ InsertOff /\ WriteOff /\ PluginOff

ApplyNext == ApplyUpdates

SpecApply == InitApply /\ [][ApplyNext]_vars

InitLine == LineInit /\ SegOff /\ CompileOff /\ MsgOff /\ TaskOff /\ FilterOff /\ DocOff /\ WatchOff /\ CtxOff /\ InsertOff /\ WriteOff /\ PluginOff

LineNext == UpdateTaskInContent

SpecLine == InitLine /\ [][LineNext]_vars

InitFilter == FilterInit /\ SegOff /\ CompileOff /\ MsgOff /\ TaskOff /\ LineOff /\ DocOff /\ WatchOff /\ CtxOff /\ InsertOff /\ WriteOff /\ PluginOff

FilterNext == FilterTasks

SpecFilter == InitFilter /\ [][FilterNext]_vars

InitParseDoc == ParseDocInit /\ SegOff /\ CompileOff /\ MsgOff /\ TaskOff /\ LineOff /\ FilterOff /\ WatchOff /\ CtxOff /\ InsertOff /\ WriteOff /\ PluginOff

ParseDocNext == ParseTasksFromContent

SpecParseDoc == InitParseDoc /\ [][ParseDocNext]_vars

InitWatch == WatchInit /\ SegOff /\ CompileOff /\ MsgOff /\ TaskOff /\ LineOff /\ FilterOff /\ DocOff /\ CtxOff /\ InsertOff /\ WriteOff /\ PluginOff

WatchNext ==
  \/ \E file \in AllFiles : OnCreate(file)
  \/ \E file \in AllFiles : OnDelete(file)
  \/ \E file \in AllFiles, ts \in TagSets : OnModify(file, ts)
  \/ \E file, renamed \in AllFiles : OnRename(file, renamed)
  \/ \E registry \in pendingReloads : FinishReload(registry)

SpecWatch == InitWatch /\ [][WatchNext]_vars

InitContext == ContextInit /\ SegOff /\ CompileOff /\ MsgOff /\ TaskOff /\ LineOff /\ FilterOff /\ DocOff /\ WatchOff /\ InsertOff /\ WriteOff /\ PluginOff

ContextNext == GetMatchContext

SpecContext == InitContext /\ [][ContextNext]_vars

InitInsert == InsertInit /\ SegOff /\ CompileOff /\ MsgOff /\ TaskOff /\ LineOff /\ FilterOff /\ DocOff /\ WatchOff /\ CtxOff /\ WriteOff /\ PluginOff

InsertNext == InsertTaskIntoContent

SpecInsert == InitInsert /\ [][InsertNext]_vars

InitWrite == WriteInit /\ SegOff /\ CompileOff /\ MsgOff /\ TaskOff /\ LineOff /\ FilterOff /\ DocOff /\ WatchOff /\ CtxOff /\ InsertOff /\ PluginOff

WriteNext == \E w \in Writers : ReadFile(w) \/ ReadTasks(w) \/ ModifyFile(w)

SpecWrite == InitWrite /\ [][WriteNext]_vars

InitPlugin == PluginInit /\ SegOff /\ CompileOff /\ MsgOff /\ TaskOff /\ LineOff /\ FilterOff /\ DocOff /\ WatchOff /\ CtxOff /\ InsertOff /\ WriteOff

PluginNext ==
  \E c \in Calls :
    \/ StartServer(c) \/ StopServer(c) \/ RestartServer(c)
    \/ StopResolves(c) \/ StopRejects(c)
    \/ StartResolves(c) \/ StartRejects(c)

SpecPlugin == InitPlugin /\ [][PluginNext]_vars

SpecMsg == InitMsg /\ [][MsgNext]_vars

Next == CompileNext

Spec == SpecCompile

-----------------------------------------------------------------------------
(* Properties of parseSegments (SpecSeg)                                    *)

\* two scanned segments of the document overlap
SomeScannedOverlap ==
  \E i, j \in 1..Len(allSegments) :
    /\ i # j
    /\ allSegments[i].position.start < allSegments[j].position.end
    /\ allSegments[j].position.start < allSegments[i].position.end

\* C1: the segments kept by mergeOverlappingSegments are pairwise
\* non-overlapping: for any two distinct kept segments a and b,
\* not (a.start < b.end and b.start < a.end)
C1_MergedNonOverlapping ==
  segPc = "parsed" =>
    \A i, j \in 1..Len(mergedSegments) :
      i # j =>
        ~ /\ mergedSegments[i].position.start < mergedSegments[j].position.end
          /\ mergedSegments[j].position.start < mergedSegments[i].position.end

\* a document whose scanned segments overlap, of which the merger dropped
\* some and kept at least two
C1_Witness ==
  /\ segPc = "parsed"
  /\ SomeScannedOverlap
  /\ Len(mergedSegments) >= 2
  /\ Len(mergedSegments) < Len(allSegments)

\* C2: the segment list returned by parseSegments covers the document
\* exactly: ordered by start, the first range starts at 0, each range starts
\* where the previous one ends, and the last range ends at len(document)
C2_ExactCoverage ==
  segPc = "parsed" =>
    LET ordered == sortByPosition(completeSegments)
        n == Len(ordered)
    IN  IF n = 0 THEN Len(content) = 0
        ELSE /\ ordered[1].position.start = 0
             /\ \A k \in 1..(n - 1) :
                  ordered[k + 1].position.start = ordered[k].position.end
             /\ ordered[n].position.end = Len(content)

\* C22: every segment produced by the scanners has a position [start, end)
\* inside the document such that the document's substring from start to end
\* equals the segment's raw field; this holds for callout segments as for
\* the others.
C22_RawIsSourceText ==
  segPc = "parsed" =>
    \A i \in 1..Len(allSegments) :
      /\ 0 <= allSegments[i].position.start
      /\ allSegments[i].position.start <= allSegments[i].position.end
      /\ allSegments[i].position.end <= Len(content)
      /\ Substring(content, allSegments[i].position.start,
                   allSegments[i].position.end) = allSegments[i].raw

ContentLines == Split(content, NL)

\* the line numbers of the callout header lines of the document
HeaderLines ==
  {n \in 1..Len(ContentLines) : CalloutMatch(ContentLines[n]).matched}

NthHeaderLine(k) ==
  CHOOSE n \in HeaderLines : Cardinality({m \in HeaderLines : m < n}) = k - 1

\* the first line after header line n that ends its body: a line that does
\* not begin with '>', the next header, or the line after the last line
BodyEnd(n) ==
  LET ends == {m \in (n + 1)..Len(ContentLines) :
                 \/ m \in HeaderLines
                 \/ ContentLines[m] = <<>>
                 \/ ContentLines[m][1] # ">"}
  IN  IF ends = {} THEN Len(ContentLines) + 1
      ELSE CHOOSE m \in ends : \A e \in ends : m <= e

\* the body lines of header line n, stripped and joined
BodyOf(n) ==
  Join([k \in 1..(BodyEnd(n) - n - 1) |-> Trim(Tail(ContentLines[n + k]))],
       <<NL>>)

\* the offset in the document of the first character of line n
RECURSIVE LineOffset(_)
LineOffset(n) ==
  IF n = 1 THEN 0 ELSE LineOffset(n - 1) + Len(ContentLines[n - 1]) + 1

CalloutSegments == SelectSeq(allSegments, LAMBDA seg : seg.type = "callout")

\* C24: the callout scanner produces exactly one callout segment for every
\* callout header line, whose body is exactly the immediately following
\* lines that begin with '>' (stripped), ended by the first non-'>' line, by
\* the next callout header, or by the end of the document; this holds also
\* when the body is empty and when two callout headers have identical text.
C24_OneCalloutPerHeader ==
  segPc = "parsed" =>
    /\ Len(CalloutSegments) = Cardinality(HeaderLines)
    /\ \A k \in 1..Len(CalloutSegments) :
         /\ CalloutSegments[k].content.content = BodyOf(NthHeaderLine(k))
         /\ CalloutSegments[k].position.start = LineOffset(NthHeaderLine(k))

\* scanned segment i comes before scanned segment j in ascending order of
\* start offset, the scanner order deciding between equal starts
Precedes(i, j) ==
  \/ allSegments[i].position.start < allSegments[j].position.start
  \/ /\ allSegments[i].position.start = allSegments[j].position.start
     /\ i < j

ScannedOverlap(i, j) ==
  /\ allSegments[i].position.start < allSegments[j].position.end
  /\ allSegments[j].position.start < allSegments[i].position.end

\* the segment of kept that comes last before segment i, 0 if there is none
LastKeptBefore(kept, i) ==
  IF {k \in kept : Precedes(k, i)} = {} THEN 0
  ELSE CHOOSE k \in kept :
         /\ Precedes(k, i)
         /\ \A m \in kept : Precedes(m, i) => (m = k \/ Precedes(m, k))

\* kept holds exactly the segments that do not overlap the most recently
\* kept segment
KeptByRule(kept) ==
  \A i \in 1..Len(allSegments) :
    i \in kept <=> \/ LastKeptBefore(kept, i) = 0
                   \/ ~ScannedOverlap(LastKeptBefore(kept, i), i)

\* the segments of kept are the merged segments, in ascending order
IsMergeResult(kept) ==
  /\ Len(mergedSegments) = Cardinality(kept)
  /\ \A i \in kept :
       mergedSegments[1 + Cardinality({k \in kept : Precedes(k, i)})]
         = allSegments[i]

\* the scanned segments the merger kept
KeptSegments ==
  CHOOSE kept \in SUBSET (1..Len(allSegments)) : KeptByRule(kept)

\* C23: the merger keeps a scanned segment iff, in ascending order of start
\* offset, its range does not overlap the most recently kept segment; of two
\* overlapping segments the one with the smaller start is kept, and of two
\* segments with the same start the one whose scanner ran earlier is kept
\* (checked on the pairs of which the merger keeps a segment).
C23_EarlierWins ==
  segPc = "parsed" =>
    /\ \E kept \in SUBSET (1..Len(allSegments)) :
         KeptByRule(kept) /\ IsMergeResult(kept)
    /\ \A i, j \in 1..Len(allSegments) :
         (ScannedOverlap(i, j) /\ Precedes(i, j) /\ j \in KeptSegments)
           => i \in KeptSegments

\* C23 as amended: the merger keeps a scanned segment iff, in ascending
\* order of start offset, its range does not overlap the most recently kept
\* segment; a segment is dropped only for a kept segment that comes before
\* it (smaller start, or same start and earlier scanner) and overlaps it
C23_DroppedForEarlierKept ==
  segPc = "parsed" =>
    /\ \E kept \in SUBSET (1..Len(allSegments)) :
         KeptByRule(kept) /\ IsMergeResult(kept)
    /\ \A j \in (1..Len(allSegments)) \ KeptSegments :
         \E i \in KeptSegments : Precedes(i, j) /\ ScannedOverlap(i, j)

\* a dropped segment overlaps a kept segment that comes after it
C23_Witness ==
  /\ segPc = "parsed"
  /\ \E j \in (1..Len(allSegments)) \ KeptSegments :
       \E i \in KeptSegments : Precedes(j, i) /\ ScannedOverlap(j, i)

-----------------------------------------------------------------------------
(* Properties of processPrompt (SpecCompile)                                *)

Compiling == cpc \in {"processing", "done"}

Compiled == cpc = "done" /\ reads[1].outcome = "ok"

\* the file segment i names, None if the resolver finds none
TargetOf(i) == getFirstLinkpathDest(files, segments[i].content.path)

IsReference(i) == segments[i].type \in {"link", "embed"}

\* the reads issued for segment i
ReadsBy(i) == {k \in 1..Len(reads) : reads[k].by = i}

\* the indices of a list of diagnostics that meet a condition
Where(list, Cond(_)) == {k \in 1..Len(list) : Cond(list[k])}

PendingReads == Cardinality({k \in 1..Len(reads) : reads[k].outcome = "pending"})

\* a natural number that every step of a compile decreases
C3_Measure ==
  CASE cpc = "idle" -> 2 * Len(rootContent) + 5
    [] cpc = "readingRoot" -> 2 * Len(rootContent) + 4
    [] cpc = "processing" -> PendingReads + 1
    [] OTHER -> 0

\* C3: processPrompt terminates for every document and every link graph,
\* self links and chains back to the root included: every step of a compile
\* decreases a natural number, and the reads of a compile are the one of the
\* prompt file plus at most one per segment
C3_Terminates ==
  [][ /\ C3_Measure' < C3_Measure
      /\ C3_Measure' >= 0
      /\ Len(reads') <= 1 + Len(segments')
      /\ \A i \in 1..Len(segments') : Cardinality(ReadsBy(i)') <= 1 ]_vars

\* a finished compile of a document that links to itself and to A, whose
\* chain A, B leads back to the document
C3_Witness ==
  /\ cpc = "done"
  /\ result.ok
  /\ \E i \in 1..Len(segments) :
       IsReference(i) /\ TargetOf(i) = Some(RootPath)
  /\ \E k \in 1..Len(reads) : reads[k].path = PathA /\ reads[k].outcome = "ok"

\* segment i is a link or embed whose target is in the visited set
VisitedTarget(i) ==
  /\ IsReference(i)
  /\ TargetOf(i) # None
  /\ TargetOf(i)[1] \in {RootPath} \cup context.visitedFiles

IsCircularWarning(w) ==
  w.msg \in {"Circular reference detected", "Circular embed detected"}

NestedTargets(f) ==
  LET links == parseLinks(FileText(f, rootContent))
  IN  {getFirstLinkpathDest(files, links[m].content.path) : m \in 1..Len(links)}

\* segment i was replaced by the content of its target
Inlined(i) == \E k \in ReadsBy(i) : reads[k].outcome = "ok"

\* C5: a chain of nested links within the maximum depth is inlined (the
\* target of a link inside an inlined note is read as well), and a link or
\* embed met at the maximum depth is emitted raw with a warning and not read
C5_ChainInlined ==
  Compiled =>
    /\ \A i \in 1..Len(segments) :
         (segments[i].type = "link" /\ Inlined(i)) =>
           \A g \in NestedTargets(TargetOf(i)[1]) :
             (g # None /\ g[1] \notin context.visitedFiles
                /\ context.currentDepth + 1 < context.maxDepth) =>
               \E k \in 1..Len(reads) : reads[k].path = g[1]
    /\ \A i \in 1..Len(segments) :
         (IsReference(i) /\ TargetOf(i) # None
            /\ context.currentDepth >= context.maxDepth) =>
           /\ ReadsBy(i) = {}
           /\ out[i] = <<TextItem(segments[i].raw)>>

\* C6: every warning and error recorded in the context is in the lists of
\* the result processPrompt returns
C6_DiagnosticsReturned ==
  (cpc = "done" /\ result.ok) =>
    /\ \A k \in 1..Len(context.warnings) :
         \E j \in 1..Len(result.value.warnings) :
           result.value.warnings[j] = context.warnings[k]
    /\ \A k \in 1..Len(context.errors) :
         \E j \in 1..Len(result.value.errors) :
           result.value.errors[j] = context.errors[k]

UnresolvedLink(i) == segments[i].type = "link" /\ TargetOf(i) = None

\* C7: an unresolvable link compiles to its raw text, records exactly one
\* warning, and the compile returns success
C7_UnresolvedLinkWarns ==
  Compiled =>
    /\ result.ok
    /\ \A i \in 1..Len(segments) :
         UnresolvedLink(i) =>
           /\ out[i] = <<TextItem(segments[i].raw)>>
           /\ Cardinality({k \in 1..Len(context.warnings) :
                             /\ context.warnings[k].msg # "Image not found"
                             /\ context.warnings[k].path = segments[i].content.path})
                = Cardinality({j \in 1..Len(segments) :
                                 /\ UnresolvedLink(j)
                                 /\ segments[j].content.path = segments[i].content.path})

\* the target of segment i did not resolve, or its read threw
Failed(i) ==
  \/ TargetOf(i) = None
  \/ \E k \in ReadsBy(i) : reads[k].outcome = "failed"

\* C8: whatever targets fail to resolve or to be read, processPrompt returns
\* success; a failed link or embed contributes its raw text and a failed
\* image nothing
C8_FailuresSucceed ==
  Compiled =>
    /\ result.ok
    /\ result.value.messages = toPromptMessages(Flatten(out))
    /\ \A i \in 1..Len(segments) :
         /\ (IsReference(i) /\ Failed(i)) =>
              out[i] = <<TextItem(segments[i].raw)>>
         /\ (segments[i].type = "image" /\ Failed(i)) => out[i] = <<>>

\* a finished compile with a link that does not resolve, a link whose read
\* threw, or an image that failed, one of them by a read that threw
C8_Witness ==
  /\ Compiled
  /\ \E i, j \in 1..Len(segments) :
       /\ IsReference(i) /\ Failed(i)
       /\ segments[j].type = "image" /\ Failed(j)
       /\ ReadsBy(i) # {} \/ ReadsBy(j) # {}

\* C9: a variable bound in the variable map, to the empty string included,
\* compiles to its value; otherwise to its declared default; otherwise to
\* the placeholder unchanged
C9_VariableSubstitution ==
  Compiling =>
    \A i \in 1..Len(segments) :
      segments[i].type = "variable" =>
        LET c == segments[i].content
        IN  out[i] = << TextItem(
              IF c.name \in DOMAIN args THEN args[c.name]
              ELSE IF c.defaultValue # None THEN c.defaultValue[1]
              ELSE <<"{","{">> \o c.name \o <<"}","}">>) >>

\* what segment i resolves to, given how its read ended
ExpectedOut(i) ==
  IF ReadsBy(i) = {}
  THEN StartSegment(files, segments[i], NewContext(args)).out
  ELSE AfterRead(segments[i], pendingFile[i][1], rootContent, Inlined(i)).out

\* C11: whichever read finishes first, the output items are in the document
\* order of their segments: the messages returned are those of the outputs
\* of segment 1, segment 2, ... in that order
C11_DocumentOrder ==
  (cpc = "done" /\ result.ok) =>
    result.value.messages
      = toPromptMessages(Flatten([i \in 1..Len(segments) |-> ExpectedOut(i)]))

\* a finished compile in which the read of a later segment completed before
\* the read of an earlier one, both with output
C11_Witness ==
  /\ cpc = "done"
  /\ result.ok
  /\ \E a, b \in 1..Len(settled) :
       /\ a < b
       /\ settled[a] > settled[b]
       /\ out[settled[a]] # <<>>
       /\ out[settled[b]] # <<>>
       /\ out[settled[a]] # out[settled[b]]

-----------------------------------------------------------------------------
(* Properties of formatTask and parseTaskLine (SpecRoundTrip)               *)

\* the elements of a list
Range(list) == {list[k] : k \in 1..Len(list)}

\* C12: parseTaskLine(formatTask(t)) has the status, priority, every present
\* date, recurrence, set of tags and indent of t, also when t has both a
\* recurrence and tags
C12_RoundTrip ==
  taskPc = "parsed" =>
    /\ parsedTask.ok
    /\ parsedTask.value.status = task.status
    /\ parsedTask.value.priority = task.priority
    /\ \A k \in DOMAIN task.dates :
         task.dates[k] # None => parsedTask.value.dates[k] = task.dates[k]
    /\ parsedTask.value.recurrence = task.recurrence
    /\ Range(parsedTask.value.tags) = Range(task.tags)
    /\ parsedTask.value.indent = task.indent

\* C26: for every line L produced by formatTask,
\* formatTask(parseTaskLine(L)) equals L, so that re-writing a line does not
\* duplicate tags or alter the text, priority, dates or recurrence.
C26_RewriteIsIdentity == taskPc = "rewritten" => rewrittenLine = taskLine

-----------------------------------------------------------------------------
(* Properties of applyUpdates (SpecApply)                                   *)

\* what a required field holds after a patch field p was applied to it
Replaced(old, p) == IF p.kind = "absent" THEN old ELSE p.value

\* what an optional field holds after a patch field p was applied to it
Patched(old, p) ==
  CASE p.kind = "absent" -> old
    [] p.kind = "null" -> None
    [] p.kind = "value" -> Some(p.value)

C25_InputUntouched == [][taskPc = "input" => task' = task]_vars

-----------------------------------------------------------------------------
(* Properties of updateTaskInContent (SpecLine)                             *)

LineCount(c) == Len(Split(c, NL))

InRange == 1 <= lineNumber /\ lineNumber <= LineCount(docContent)

\* C14: for a line number n in [1, line count], updateTaskInContent(content,
\* n, newLine) returns a document with the same number of lines in which
\* line n equals newLine and every other line equals the corresponding line
\* of content.
C14_ReplacesOneLine ==
  (linePc = "called" /\ InRange) =>
    /\ outcome.kind = "return"
    /\ LineCount(outcome.value) = LineCount(docContent)
    /\ \A k \in 1..LineCount(docContent) :
         Split(outcome.value, NL)[k]
           = IF k = lineNumber THEN newTaskLine ELSE Split(docContent, NL)[k]

\* the last line of a document of MaxLines lines was replaced by another line
C14_Witness ==
  /\ linePc = "called"
  /\ lineNumber = MaxLines
  /\ outcome.kind = "return"
  /\ outcome.value # docContent

\* C15: updateTaskInContent called with a line number outside [1, line
\* count] surfaces the failure to its caller as an explicit error result,
\* not as an exception thrown past its boundary.
C15_OutOfRangeIsErrorResult ==
  (linePc = "called" /\ ~InRange) => outcome.kind # "throw"

-----------------------------------------------------------------------------
(* Properties of filterTasks (SpecFilter)                                   *)

HasTag(t, tag) == \E j \in 1..Len(t.tags) : t.tags[j] = tag

\* t satisfies every predicate of f whose criterion is present
Satisfies(t, f) ==
  /\ f.status # None => t.status = f.status[1]
  /\ f.priority # None => t.priority = f.priority
  /\ f.path # None => Includes(t.location.file, f.path[1])
  /\ f.due_before # None
       => t.dates.due # None /\ StrLeq(t.dates.due[1], f.due_before[1])
  /\ f.due_after # None
       => t.dates.due # None /\ StrLeq(f.due_after[1], t.dates.due[1])
  /\ f.is_recurring # None => (t.recurrence # None) = f.is_recurring[1]
  /\ f.tags # None => \A k \in 1..Len(f.tags[1]) : HasTag(t, f.tags[1][k])

\* the positions in tasks of the tasks that satisfy filter
Matches == {k \in 1..Len(tasks) : Satisfies(tasks[k], filter)}

\* the position in tasks of the j-th task that satisfies filter
NthMatch(j) ==
  CHOOSE k \in Matches : Cardinality({m \in Matches : m < k}) = j - 1

\* filtered holds the first n matching tasks, in their order in tasks
FirstMatches(n) ==
  /\ Len(filtered) = n
  /\ \A j \in 1..n : filtered[j] = tasks[NthMatch(j)]

\* C16: filterTasks(tasks, criteria) without a limit returns exactly the
\* tasks that satisfy every predicate whose criterion is present, in their
\* original relative order; with an empty criteria object it returns all
\* tasks unchanged and in order.
C16_Conjunction ==
  (filterPc = "filtered" /\ filter.limit = None) =>
    /\ FirstMatches(Cardinality(Matches))
    /\ filter = NoFilter => filtered = tasks

\* two of three tasks are returned, a task between them is dropped
C16_Witness ==
  /\ filterPc = "filtered"
  /\ filter.limit = None
  /\ Len(tasks) = 3
  /\ filtered = <<tasks[1], tasks[3]>>
  /\ tasks[2] # tasks[1] /\ tasks[2] # tasks[3]
  /\ filter.due_before # None

\* C17: with a positive limit L, filterTasks returns the first min(L, number
\* of matches) matching tasks in their original relative order; with a limit
\* that is absent, zero or negative it returns all matching tasks.
C17_Limit ==
  filterPc = "filtered" =>
    IF filter.limit # None /\ filter.limit[1] > 0
    THEN FirstMatches(Min(filter.limit[1], Cardinality(Matches)))
    ELSE FirstMatches(Cardinality(Matches))

\* a limit of 1 cut two matches down to the first, and a limit of 0 cut
\* nothing
C17_Witness ==
  /\ filterPc = "filtered"
  /\ \/ filter.limit = Some(1) /\ Cardinality(Matches) = 2 /\ Len(filtered) = 1
     \/ filter.limit = Some(0) /\ Cardinality(Matches) = 2 /\ Len(filtered) = 2

-----------------------------------------------------------------------------
(* Properties of parseTasksFromContent (SpecParseDoc)                       *)

FileLines == Split(fileContent, NL)

\* optional whitespace, '-', optional whitespace, '[', one character, ']'
QualifiesAsTask(line) ==
  \E i \in 1..Len(line) : \E j \in (i + 1)..Len(line) :
    /\ \A k \in 1..(i - 1) : IsSpace(line[k])
    /\ line[i] = "-"
    /\ \A k \in (i + 1)..(j - 1) : IsSpace(line[k])
    /\ line[j] = "["
    /\ j + 2 <= Len(line)
    /\ line[j + 2] = "]"

\* the line numbers of the task lines of the document
TaskLineNumbers == {n \in 1..Len(FileLines) : QualifiesAsTask(FileLines[n])}

\* the line number of the j-th task line
NthTaskLine(j) ==
  CHOOSE n \in TaskLineNumbers :
    Cardinality({m \in TaskLineNumbers : m < n}) = j - 1

\* C18: parseTasksFromContent never fails for any document: it returns
\* exactly one task per line that qualifies as a task line, in top-to-bottom
\* order, each with its 1-based line number, and every non-qualifying line is
\* skipped without affecting the other lines' results.
C18_OneTaskPerTaskLine ==
  docPc = "parsed" =>
    /\ fileTasks.ok
    /\ Len(fileTasks.value) = Cardinality(TaskLineNumbers)
    /\ \A j \in 1..Len(fileTasks.value) :
         /\ fileTasks.value[j].location.line = NthTaskLine(j)
         /\ fileTasks.value[j]
              = parseTaskLine(FileLines[NthTaskLine(j)],
                              fileTasks.value[j].location).value

\* two task lines with a line that is no task between them
C18_Witness ==
  /\ docPc = "parsed"
  /\ Len(fileTasks.value) = 2
  /\ fileTasks.value[1].location.line = 1
  /\ fileTasks.value[2].location.line = 3
  /\ FileLines[2] = <<"-"," ","[", "]">>

\* one or more '#' then whitespace
IsHeadingLine(line) ==
  \E k \in 1..Len(line) :
    /\ \A m \in 1..k : line[m] = "#"
    /\ k + 1 <= Len(line)
    /\ IsSpace(line[k + 1])

\* the text of a heading line: what follows its '#' characters, trimmed
HeadingText(line) == Trim(SubSeq(line, HashRunEnd(line, 1), Len(line)))

\* the line numbers of the heading lines before line n
HeadingsBefore(n) == {h \in 1..(n - 1) : IsHeadingLine(FileLines[h])}

NearestHeading(n) ==
  IF HeadingsBefore(n) = {} THEN None
  ELSE Some(HeadingText(FileLines[CHOOSE h \in HeadingsBefore(n) :
                                    \A g \in HeadingsBefore(n) : g <= h]))

\* C19: the heading recorded in each task's location is the text of the
\* nearest heading line that precedes the task's line in the same document,
\* and is absent for tasks that precede every heading; a new heading line
\* replaces the tracked heading for all later tasks.
C19_NearestHeading ==
  (docPc = "parsed" /\ fileTasks.ok) =>
    \A j \in 1..Len(fileTasks.value) :
      fileTasks.value[j].location.heading
        = NearestHeading(fileTasks.value[j].location.line)

\* a task before every heading, and a task after two headings
C19_Witness ==
  /\ docPc = "parsed"
  /\ Len(fileTasks.value) = 2
  /\ fileTasks.value[1].location.heading = None
  /\ fileTasks.value[2].location.heading = Some(<<"G">>)
  /\ FileLines[2] = <<"#"," ","H">>

-----------------------------------------------------------------------------
(* Properties of the file watchers (SpecWatch)                              *)

\* the prompt names of the files that satisfy isPromptFile now
QualifyingNames ==
  {generatePromptName(f.basename) : f \in {g \in vaultFiles : isPromptFile(g)}}

\* C20: after any sequence of vault create, delete, modify and rename events
\* has been handled by the file watchers, the set of registered prompt
\* resources equals the set of prompt names of the markdown files that
\* currently satisfy isPromptFile.
C20_RegistryInSync == DOMAIN promptResources = QualifyingNames

\* the names on the vault prompt list
ListedNames == {p.name : p \in listPrompts}

\* C30: when several prompt reloads overlap, then once all of them have
\* finished the names in the vault prompt list returned by listPrompts are
\* exactly the names in the prompt resource registry of the latest reload.
C30_ListMatchesLatestReload ==
  pendingReloads = {} => ListedNames = DOMAIN promptResources

-----------------------------------------------------------------------------
(* Properties of getMatchContext (SpecContext)                              *)

\* the offset of the first occurrence of searchQuery in searchText, or -1
MatchStart == IndexOf(searchText, searchQuery, 0)

\* C21: getMatchContext(text, query, contextLength) returns, when query
\* occurs in text, the first occurrence as matched_text and as context the
\* substring from max(0, matchStart - contextLength) to min(len(text),
\* matchEnd + contextLength); when query does not occur it returns an empty
\* matched_text and the whole text as context.
C21_FirstOccurrence ==
  ctxPc = "called" =>
    IF MatchStart # -1
    THEN /\ matchContext.matched_text = searchQuery
         /\ matchContext.context
              = Substring(searchText, Max(0, MatchStart - contextLength),
                          Min(Len(searchText),
                              MatchStart + Len(searchQuery) + contextLength))
    ELSE matchContext = [matched_text |-> <<>>, context |-> searchText]

-----------------------------------------------------------------------------
(* Properties of insertTaskIntoContent (SpecInsert)                         *)

\* the lines of a content; the empty content has none
LinesOf(c) == IF c = <<>> THEN <<>> ELSE Split(c, NL)

\* lines without its n-th line
WithoutLine(lines, n) == SubSeq(lines, 1, n - 1) \o SubSeq(lines, n + 1, Len(lines))

\* C27: whenever insertTaskIntoContent returns success with {content,
\* lineNumber}, for every position (absent, append, prepend, after_heading
\* with or without a heading argument), line lineNumber of the returned
\* content equals the task line and the remaining lines are exactly the
\* original lines in their original order.
C27_InsertedAtReportedLine ==
  (insertPc = "called" /\ inserted.ok) =>
    /\ inserted.value.lineNumber \in 1..Len(Split(inserted.value.content, NL))
    /\ Split(inserted.value.content, NL)[inserted.value.lineNumber] = insertLine
    /\ WithoutLine(Split(inserted.value.content, NL), inserted.value.lineNumber)
         = LinesOf(insertContent)

-----------------------------------------------------------------------------
(* Properties of the task-writing operations (SpecWrite)                    *)

\* what an operation does to one task line
LineEffect(op, l) ==
  NewLineFor(op, parseTaskLine(l, [file |-> TaskFile, line |-> op.line,
                                   heading |-> None]).value)

\* the lines of the file after an operation ran on lines, alone
Effect(op, lines) ==
  IF op.kind = "create"
  THEN IF op.position = None THEN Append(lines, CreatedLine)
       ELSE <<CreatedLine>> \o lines
  ELSE [lines EXCEPT ![op.line] = LineEffect(op, lines[op.line])]

\* the files that reflect both writes: one operation after the other
BothWrites ==
  {Join(Effect(writeOp["B"], Effect(writeOp["A"], InitialLines)), <<NL>>),
   Join(Effect(writeOp["A"], Effect(writeOp["B"], InitialLines)), <<NL>>)}

\* C28: when two task-writing operations on the same file run concurrently
\* and both return success, the final file content reflects both writes,
\* under every interleaving of their read and modify steps.
C28_BothWritesKept ==
  (\A w \in Writers : writePc[w] = "done" /\ written[w].ok)
    => taskFile \in BothWrites

-----------------------------------------------------------------------------
(* Properties of MCPPlugin (SpecPlugin)                                     *)

StartedTransports == {t \in Calls : transports[t] = "started"}

Quiescent == \A c \in Calls : calls[c].pc \in {"idle", "done"}

\* C29: under every interleaving of startServer, stopServer and
\* restartServer calls and for every outcome of transport start and stop, at
\* most one started transport exists at any time, every started transport is
\* the one referenced by the plugin, and (when no call is suspended)
\* isServerRunning() is true exactly when a started transport exists.
C29_OneReferencedTransport ==
  /\ Cardinality(StartedTransports) <= 1
  /\ \A t \in StartedTransports : transport = Some(t)
  /\ Quiescent => (isServerRunning <=> StartedTransports # {})

-----------------------------------------------------------------------------
(* Properties of toPromptMessages (SpecMsg)                                 *)

\* the texts of the text entries of a list, concatenated in order
RECURSIVE TextOf(_)
TextOf(list) ==
  IF list = <<>> THEN <<>>
  ELSE (IF Head(list).type = "text" THEN Head(list).text ELSE <<>>)
         \o TextOf(Tail(list))

IsImage(c) == c.type = "image"

Contents == [k \in 1..Len(messages) |-> messages[k].content]

\* the position of the n-th image of a list
NthImage(list, n) ==
  CHOOSE k \in 1..Len(list) :
    /\ IsImage(list[k])
    /\ Cardinality({j \in 1..k : IsImage(list[j])}) = n

\* C10: toPromptMessages yields no two adjacent text messages, one message
\* per image item, the text of the items concatenated in order, and the
\* items in their order: the same text precedes each image
C10_Coalesced ==
  msgPc = "built" =>
    /\ \A k \in 1..(Len(messages) - 1) :
         ~ (messages[k].content.type = "text"
              /\ messages[k + 1].content.type = "text")
    /\ \A k \in 1..Len(messages) : messages[k].role = "user"
    /\ LET imageItems == SelectSeq(processed, IsImage)
           imageMessages == SelectSeq(Contents, IsImage)
       IN  /\ Len(imageMessages) = Len(imageItems)
           /\ \A n \in 1..Len(imageItems) :
                /\ imageMessages[n].data = imageItems[n].data
                /\ imageMessages[n].mimeType = imageItems[n].mimeType
                /\ TextOf(SubSeq(Contents, 1, NthImage(Contents, n)))
                     = TextOf(SubSeq(processed, 1, NthImage(processed, n)))
    /\ TextOf(Contents) = TextOf(processed)

\* two adjacent text items were folded into one message next to an image
C10_Witness ==
  /\ msgPc = "built"
  /\ \E k \in 1..(Len(processed) - 1) :
       /\ processed[k].type = "text" /\ processed[k].text # <<>>
       /\ processed[k + 1].type = "text" /\ processed[k + 1].text # <<>>
  /\ \E k \in 1..Len(processed) : processed[k].type = "image"
  /\ Len(messages) = 2

=============================================================================
